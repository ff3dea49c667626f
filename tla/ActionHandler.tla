--------------------------- MODULE ActionHandler ---------------------------
(***************************************************************************)
(* The action handler of HSS_rtc (components/action_handler.py) and the    *)
(* executor that owns it (components/execution.py).                        *)
(*                                                                         *)
(* The handler's thread runs the configured actions, one shell command     *)
(* after the other, each when its trigger fires.  The executor shuts it    *)
(* down when loadgen ends or the user interrupts; without traffic it waits *)
(* to be told by the handler.  Both work on the same shell, under a QLock: *)
(* the lock is composed in as it is, with all it allows.                   *)
(***************************************************************************)
EXTENDS Integers, Sequences

CONSTANT Actions        \* how many actions are configured

ASSUME ActionsAssumption == Actions \in Nat \ {0}

VARIABLES
    cfg,            \* the configuration: see Configs
    pc, index,      \* the handler's thread and its __action_index
    executing,      \* self.__executing_cmd
    error_code,     \* self.__error_code # 0, of the last command that ended
    running, node,  \* self.__running; self.__node is not None
    typed,          \* what the shell has still to run, the first line running
    unread,         \* its prompts not yet read, each by the text before it
    status, eof,    \* $? of the shell; the shell has died
    x,              \* the executor
    waiting,        \* its wait_for_action_handler
    stop,           \* its stop_phase_pending
    verdict,        \* the verdict of the test case
    results,        \* the result reported for every action
    watching,       \* load monitor enabled and error register open
    count, waiters, woken, holders,     \* self.__mutex
    \* history
    ended,          \* how the command of every action ended by itself
    trusted         \* the first action that was cancelled, or during which
                    \* both threads were inside the lock

handler == <<pc, index, executing, error_code>>
shell == <<typed, unread, status, eof>>
lock == <<count, waiters, woken, holders>>
told == <<waiting, stop, verdict, results, watching>>
vars == <<cfg, handler, running, node, shell, x, told, lock, ended, trusted>>

Threads == {"handler", "executor"}
Mutex == INSTANCE QLock

(* With traffic or not, whether actions disable the monitors, stop on a    *)
(* failure and have a time limit; ready: the shell could be opened.        *)
Configs == [traffic : BOOLEAN, disables : BOOLEAN, stop_on_fail : BOOLEAN,
            timed : BOOLEAN, ready : BOOLEAN]
Ids == 1 .. Actions
Gone == {"new", "returned", "end", "dead"}       \* the thread is not alive

(* the lines that are no command of an action: echo EL:$?, a tail of the   *)
(* error file, and the end of the line behind a Ctrl-C                     *)
AskCode == 0
AskError == -1
Newline == -2
Lines == Ids \cup {AskCode, AskError, Newline}
Texts == {"EL:0", "EL:n", "empty", "other"}

TypeOK ==
    /\ cfg \in Configs
    /\ pc \in Gone \cup {"trigger", "go", "write", "written", "loop", "acquire",
                         "in", "expect", "udp", "stopping", "code", "answer",
                         "error", "shut", "shut_in", "after", "tail"}
    /\ index \in 1 .. Actions + 1
    /\ executing \in BOOLEAN /\ error_code \in BOOLEAN
    /\ running \in BOOLEAN /\ node \in BOOLEAN
    /\ typed \in Seq(Lines) /\ unread \in Seq(Texts)
    /\ status \in {"ok", "fail"} /\ eof \in BOOLEAN
    /\ x \in {"idle", "loadgen", "wait", "shut", "shut_in", "stopping", "join",
              "done"}
    /\ waiting \in BOOLEAN /\ stop \in BOOLEAN /\ verdict \in BOOLEAN
    /\ results \in [Ids -> {"none", "SUCCESS", "FAILED"}]
    /\ watching \in BOOLEAN
    /\ ended \in [Ids -> {"no", "ok", "fail"}]
    /\ trusted \in 1 .. Actions + 1
    /\ Mutex!TypeOK

Init ==
    /\ cfg \in Configs
    /\ pc = "new" /\ index = 1
    /\ executing = FALSE /\ error_code = FALSE
    /\ running = FALSE /\ node = cfg.ready
    /\ typed = <<>> /\ unread = <<>> /\ status = "ok" /\ eof = FALSE
    /\ x = "idle"
    /\ waiting = FALSE /\ stop = FALSE /\ verdict = TRUE
    /\ results = [i \in Ids |-> "none"]
    /\ watching = TRUE
    /\ Mutex!Init
    /\ ended = [i \in Ids |-> "no"]
    /\ trusted = Actions + 1

Disables == cfg.traffic /\ cfg.disables

Distrust == trusted' = IF index < trusted THEN index ELSE trusted

----------------------------------------------------------------------------
(*                                The shell                                *)

Type(line) ==
    /\ typed' = IF eof THEN typed ELSE Append(typed, line)
    /\ UNCHANGED <<unread, status, eof>>

ReadPrompt == unread' = Tail(unread) /\ UNCHANGED <<typed, status, eof>>

CloseShell ==
    /\ node' = FALSE
    /\ typed' = <<>> /\ unread' = <<>> /\ eof' = FALSE /\ UNCHANGED status

(* Ctrl-C and a newline: what was typed ahead is lost and a command ends   *)
(* with a prompt, or ignores it; at the prompt there is just another one   *)
CtrlC(obeyed) ==
    LET ignored == typed # <<>> /\ Head(typed) \in Ids /\ ~obeyed
    IN  /\ typed' = IF eof THEN typed
                    ELSE IF ignored THEN <<Head(typed), Newline>> ELSE <<Newline>>
        /\ unread' = IF ignored \/ eof THEN unread ELSE Append(unread, "empty")
        /\ status' = IF ignored THEN status ELSE "fail"
        /\ UNCHANGED eof

(* external: a line is through and its prompt is printed; what a command   *)
(* shows of itself is up to it                                             *)
LineEnds(how, text) ==
    /\ typed # <<>> /\ node
    /\ typed' = Tail(typed)
    /\ LET line == Head(typed)
       IN  IF line \in Ids
           THEN /\ ended' = [ended EXCEPT ![line] = how] /\ status' = how
                /\ unread' = Append(unread, text)
           ELSE /\ unread' = Append(unread, CASE line = AskCode /\ status = "ok" -> "EL:0"
                                              [] line = AskCode /\ status # "ok" -> "EL:n"
                                              [] line = AskError -> text
                                              [] OTHER -> "empty")
                /\ status' = IF line = Newline THEN status ELSE "ok"
                /\ UNCHANGED ended
    /\ UNCHANGED <<cfg, handler, running, node, eof, x, told, lock, trusted>>

(* external: the shell dies with what it runs *)
ShellDies ==
    /\ typed # <<>> /\ node
    /\ typed' = <<>> /\ eof' = TRUE
    /\ UNCHANGED <<cfg, handler, running, node, unread, status, x, told, lock,
                   ended, trusted>>

----------------------------------------------------------------------------
(*                         Triggers and commands                           *)

(* the trigger of the action fires, or the handler was shut down before *)
Triggered ==
    /\ pc = "trigger"
    /\ pc' = IF running THEN "go" ELSE "returned"
    /\ UNCHANGED <<cfg, index, executing, error_code, running, node, shell, x,
                   told, lock, ended, trusted>>

(* max_trigger_time passed *)
TriggerExpires ==
    /\ pc = "trigger" /\ running
    /\ pc' = "returned"
    /\ verdict' = FALSE /\ stop' = TRUE
    /\ UNCHANGED <<cfg, index, executing, error_code, running, node, shell, x,
                   waiting, results, watching, lock, ended, trusted>>

(* the monitors are told that what follows is not to be judged *)
DisableMonitors ==
    /\ pc = "go"
    /\ pc' = "write"
    /\ watching' = (watching /\ ~Disables)
    /\ UNCHANGED <<cfg, index, executing, error_code, running, node, shell, x,
                   waiting, stop, verdict, results, lock, ended, trusted>>

(* write_line(): raises when the shell was closed meanwhile *)
WriteCommand ==
    /\ pc = "write"
    /\ pc' = IF node THEN "written" ELSE "dead"
    /\ IF node THEN Type(index) ELSE UNCHANGED shell
    /\ UNCHANGED <<cfg, index, executing, error_code, running, node, x, told,
                   lock, ended, trusted>>

(* __executing_cmd = True, and the prompt is asked of the node *)
MarkExecuting ==
    /\ pc = "written"
    /\ executing' = TRUE
    /\ pc' = IF node THEN "loop" ELSE "dead"
    /\ UNCHANGED <<cfg, index, error_code, running, node, shell, x, told, lock,
                   ended, trusted>>

----------------------------------------------------------------------------
(*                   The loop that waits for the command                   *)

Loop ==
    /\ pc = "loop"
    /\ pc' = IF executing THEN "acquire" ELSE "after"
    /\ UNCHANGED <<cfg, index, executing, error_code, running, node, shell, x,
                   told, lock, ended, trusted>>

HandlerAcquires ==
    /\ pc \in {"acquire", "shut"}
    /\ pc = "shut" => running
    /\ pc' = IF pc = "acquire" THEN "in" ELSE "shut_in"
    /\ Mutex!AcquireFree("handler") \/ Mutex!AcquireBusy("handler")
    /\ IF holders' = Threads THEN Distrust ELSE UNCHANGED trusted
    /\ UNCHANGED <<cfg, index, executing, error_code, running, node, shell, x,
                   told, ended>>

Enter(t) ==
    /\ Mutex!Enter(t)
    /\ IF holders' = Threads THEN Distrust ELSE UNCHANGED trusted
    /\ UNCHANGED <<cfg, handler, running, node, shell, x, told, ended>>

Leave(to) == pc' = to /\ Mutex!Release("handler")
Inside == pc = "expect" /\ node

(* a shutdown may have closed the shell: then the thread ends *)
NodeChecked ==
    /\ pc = "in" /\ "handler" \in holders
    /\ IF node THEN pc' = "expect" /\ UNCHANGED lock ELSE Leave("returned")
    /\ UNCHANGED <<cfg, index, executing, error_code, running, node, shell, x,
                   told, ended, trusted>>

(* the shell is closed by somebody else who got the lock too: EOF, and the *)
(* loop is left, or whatever else a closed channel raises                  *)
ClosedInLock ==
    /\ pc = "expect" /\ ~node
    /\ \/ Leave("after")
       \/ pc' = "dead" /\ UNCHANGED lock
    /\ UNCHANGED <<cfg, index, executing, error_code, running, node, shell, x,
                   told, ended, trusted>>

(* a prompt is read: ask for the return code, unless the command was       *)
(* stopped meanwhile                                                       *)
Prompt ==
    /\ Inside /\ unread # <<>>
    /\ ReadPrompt
    /\ IF executing THEN pc' = "code" /\ UNCHANGED lock ELSE Leave("loop")
    /\ UNCHANGED <<cfg, index, executing, error_code, running, node, x, told,
                   ended, trusted>>

Report(failed) ==
    /\ Leave("after")
    /\ results' = [results EXCEPT ![index] = IF failed THEN "FAILED" ELSE "SUCCESS"]
    /\ verdict' = (verdict /\ ~failed)
    /\ executing' = FALSE

(* get_return_code(): type the question; a shell closed by now counts as -1 *)
AskReturnCode ==
    /\ pc = "code"
    /\ IF node
       THEN /\ Type(AskCode)
            /\ pc' = "answer"
            /\ UNCHANGED <<lock, error_code, executing, results, verdict>>
       ELSE Report(TRUE) /\ error_code' = TRUE /\ UNCHANGED shell
    /\ UNCHANGED <<cfg, index, running, node, x, waiting, stop, watching, ended,
                   trusted>>

(* mutant: get_error_info() does not wait for its answer *)
MutantReturnCode(shown) ==
    /\ pc = "answer" /\ node /\ unread # <<>>
    /\ LET failed == Head(unread) \in {"EL:n", "other"}
       IN  /\ error_code' = failed
           /\ unread' = Tail(unread)
           /\ typed' = IF failed /\ ~eof /\ ~shown THEN Append(typed, AskError) ELSE typed
           /\ Report(failed)
    /\ UNCHANGED <<cfg, index, running, node, status, eof, x, waiting, stop,
                   watching, ended, trusted>>

(* What stands before the next prompt is the answer: an empty one is 0,    *)
(* one without EL:n is -1 (a number that was matched can be parsed).  For  *)
(* a failure get_error_info() asks on, unless the output had the reason.   *)
ReturnCode(shown) ==
    /\ pc = "answer" /\ node /\ unread # <<>>
    /\ LET failed == Head(unread) \in {"EL:n", "other"}
       IN  /\ error_code' = failed
           /\ unread' = Tail(unread)
           /\ IF failed /\ ~shown
              THEN /\ typed' = IF eof THEN typed ELSE Append(typed, AskError)
                   /\ pc' = "error"
                   /\ UNCHANGED <<lock, executing, results, verdict>>
              ELSE Report(failed) /\ UNCHANGED typed
    /\ UNCHANGED <<cfg, index, running, node, status, eof, x, waiting, stop,
                   watching, ended, trusted>>

ErrorInfo ==
    /\ pc = "error" /\ node /\ unread # <<>>
    /\ ReadPrompt
    /\ Report(TRUE)
    /\ UNCHANGED <<cfg, index, error_code, running, node, x, waiting, stop,
                   watching, ended, trusted>>

(* No answer in time, or no shell: run_command() swallows the exception    *)
(* and returns None, which has no length and no lines.  That ends the      *)
(* thread, and nobody releases the lock.                                   *)
ReturnCodeRaises ==
    /\ pc \in {"answer", "error"}
    /\ ~node \/ unread = <<>>
    /\ pc' = "dead"
    /\ UNCHANGED <<cfg, index, executing, error_code, running, node, shell, x,
                   told, lock, ended, trusted>>

(* two seconds without news *)
Timeout ==
    /\ Inside /\ unread = <<>> /\ ~eof
    /\ pc' = "udp"
    /\ UNCHANGED <<cfg, index, executing, error_code, running, node, shell, x,
                   told, lock, ended, trusted>>

(* the time of the action may be over as well *)
Continue(late) ==
    /\ late => cfg.timed
    /\ Leave(IF late THEN "shut" ELSE "loop")

(* read_udp_cmd(): no order, or an order to cancel the action *)
NoOrder(late) ==
    /\ pc = "udp"
    /\ Continue(late)
    /\ verdict' = (verdict /\ ~late)
    /\ UNCHANGED <<cfg, index, executing, error_code, running, node, shell, x,
                   waiting, stop, results, watching, ended, trusted>>

CancelAction(obeyed) ==
    /\ pc = "udp" /\ node
    /\ CtrlC(obeyed) /\ Distrust
    /\ pc' = "stopping"
    /\ UNCHANGED <<cfg, index, executing, error_code, running, node, x, told,
                   lock, ended>>

(* stop_cmd(): one prompt is read, or none came in thirty seconds; either  *)
(* way the command counts as stopped                                       *)
CancelEnds(late) ==
    /\ pc = "stopping" /\ node
    /\ IF unread # <<>> THEN ReadPrompt ELSE UNCHANGED shell
    /\ Continue(late)
    /\ executing' = FALSE /\ verdict' = FALSE
    /\ UNCHANGED <<cfg, index, error_code, running, node, x, waiting, stop,
                   results, watching, ended, trusted>>

(* cancelled with no shell any more: a mark, or a closed channel raises *)
CancelClosed ==
    /\ ~node
    /\ \/ pc = "udp" /\ Leave("loop") /\ executing' = FALSE
       \/ pc = "stopping" /\ pc' = "dead" /\ UNCHANGED <<lock, executing>>
    /\ UNCHANGED <<cfg, index, error_code, running, node, shell, x, told, ended,
                   trusted>>

(* pexpect.EOF *)
EndOfFile ==
    /\ Inside /\ unread = <<>> /\ eof
    /\ Leave("shut")
    /\ verdict' = FALSE
    /\ UNCHANGED <<cfg, index, executing, error_code, running, node, shell, x,
                   waiting, stop, results, watching, ended, trusted>>

----------------------------------------------------------------------------
(*                               shutdown()                                *)

(* mutant: the lock is kept *)
MutantHandlerShutdown ==
    /\ pc = "shut_in" /\ "handler" \in holders
    /\ executing' = (executing /\ ~node)
    /\ verdict' = (verdict /\ ~(node /\ executing))
    /\ CloseShell
    /\ running' = FALSE
    /\ pc' = IF executing' THEN "loop" ELSE "after"
    /\ UNCHANGED <<cfg, index, error_code, x, waiting, stop, results, watching,
                   lock, ended, trusted>>

(* the handler shuts itself down and goes on with the loop *)
HandlerShutdown ==
    /\ \/ pc = "shut" /\ ~running /\ UNCHANGED <<lock, executing, verdict, node, shell>>
       \/ /\ pc = "shut_in" /\ "handler" \in holders
          /\ Mutex!Release("handler")
          /\ executing' = (executing /\ ~node)
          /\ verdict' = (verdict /\ ~(node /\ executing))
          /\ CloseShell
    /\ running' = FALSE
    /\ pc' = IF executing' THEN "loop" ELSE "after"
    /\ UNCHANGED <<cfg, index, error_code, x, waiting, stop, results, watching,
                   ended, trusted>>

(* the executor: a handler that does not run is not locked *)
ExecutorAcquires ==
    /\ x = "shut"
    /\ IF running
       THEN /\ Mutex!AcquireFree("executor") \/ Mutex!AcquireBusy("executor")
            /\ x' = "shut_in"
       ELSE x' = "join" /\ UNCHANGED lock
    /\ IF holders' = Threads THEN Distrust ELSE UNCHANGED trusted
    /\ UNCHANGED <<cfg, handler, running, node, shell, told, ended>>

(* stop_cmd(): Ctrl-C *)
ExecutorStopsCommand(obeyed) ==
    /\ x = "shut_in" /\ "executor" \in holders /\ node /\ executing
    /\ x' = "stopping"
    /\ CtrlC(obeyed)
    /\ UNCHANGED <<cfg, handler, running, node, told, lock, ended, trusted>>

(* its wait for a prompt ends as in CancelEnds, and the shell is closed *)
ExecutorReleases ==
    /\ x \in {"shut_in", "stopping"} /\ "executor" \in holders
    /\ x = "shut_in" => ~node \/ ~executing
    /\ Mutex!Release("executor")
    /\ executing' = (executing /\ x # "stopping")
    /\ verdict' = (verdict /\ x # "stopping")
    /\ CloseShell /\ running' = FALSE
    /\ x' = "join"
    /\ UNCHANGED <<cfg, pc, index, error_code, waiting, stop, results,
                   watching, ended, trusted>>

----------------------------------------------------------------------------
(*                      After a command; the executor                      *)

(* mutant: the monitors stay disabled after a failed action *)
MutantAfter ==
    /\ pc = "after"
    /\ watching' = (watching \/ (Disables /\ ~error_code))
    /\ IF cfg.stop_on_fail /\ error_code
       THEN /\ running' = FALSE /\ CloseShell
            /\ stop' = (stop \/ cfg.traffic)
            /\ index' = IF cfg.traffic THEN index + 1 ELSE Actions + 1
       ELSE index' = index + 1 /\ UNCHANGED <<running, node, shell, stop>>
    /\ pc' = "tail"
    /\ UNCHANGED <<cfg, executing, error_code, x, waiting, verdict,
                   results, lock, ended, trusted>>

(* The monitors are enabled again; with stop_on_fail a failure shuts the   *)
(* handler down (nothing is executing, so nothing is stopped) and ends     *)
(* loadgen, or the list of actions.                                        *)
After ==
    /\ pc = "after"
    /\ watching' = (watching \/ Disables)
    /\ IF cfg.stop_on_fail /\ error_code
       THEN /\ running' = FALSE /\ CloseShell
            /\ stop' = (stop \/ cfg.traffic)
            /\ index' = IF cfg.traffic THEN index + 1 ELSE Actions + 1
       ELSE index' = index + 1 /\ UNCHANGED <<running, node, shell, stop>>
    /\ pc' = "tail"
    /\ UNCHANGED <<cfg, executing, error_code, x, waiting, verdict,
                   results, lock, ended, trusted>>

(* the time after an action runs out, or the handler is shut down in it; *)
(* after the last action the executor is told, with traffic only when      *)
(* time_running_traffic_after_execution is configured                      *)
Tail_ ==
    /\ pc = "tail"
    /\ pc' = IF index <= Actions THEN "trigger" ELSE "end"
    /\ waiting' = (waiting /\ ~(~cfg.traffic /\ pc' = "end"))
    /\ stop' \in IF cfg.traffic /\ pc' = "end" THEN {stop, TRUE} ELSE {stop}
    /\ UNCHANGED <<cfg, index, executing, error_code, running, node, shell, x,
                   verdict, results, watching, lock, ended, trusted>>

(* start_Action_handler(): only a handler with a shell is started *)
ExecutorStarts ==
    /\ x = "idle"
    /\ x' = IF cfg.traffic THEN "loadgen" ELSE "wait"
    /\ waiting' = ~cfg.traffic
    /\ IF cfg.ready THEN pc' = "trigger" /\ running' = TRUE
       ELSE UNCHANGED <<pc, running>>
    /\ UNCHANGED <<cfg, index, executing, error_code, node, shell, stop, verdict,
                   results, watching, lock, ended, trusted>>

(* loadgen ends by itself or is stopped *)
LoadgenEnds ==
    /\ x = "loadgen"
    /\ x' = "shut"
    /\ UNCHANGED <<cfg, handler, running, node, shell, told, lock, ended, trusted>>

(* the handler is done: no shutdown() on this path *)
WaitEnds ==
    /\ x = "wait" /\ ~waiting
    /\ x' = "join"
    /\ UNCHANGED <<cfg, handler, running, node, shell, told, lock, ended, trusted>>

UserInterrupts ==
    /\ x = "wait"
    /\ x' = "shut"
    /\ UNCHANGED <<cfg, handler, running, node, shell, told, lock, ended, trusted>>

(* join(5.0): the thread has ended, or not *)
Join ==
    /\ x = "join"
    /\ x' = "done"
    /\ UNCHANGED <<cfg, handler, running, node, shell, told, lock, ended, trusted>>

HandlerStep ==
    \/ Triggered \/ DisableMonitors \/ WriteCommand \/ MarkExecuting \/ Loop
    \/ HandlerAcquires \/ Enter("handler") \/ NodeChecked \/ ClosedInLock
    \/ Prompt \/ AskReturnCode \/ ErrorInfo \/ ReturnCodeRaises
    \/ \E shown \in BOOLEAN : ReturnCode(shown)
    \/ Timeout \/ CancelClosed
    \/ \E late \in BOOLEAN : NoOrder(late) \/ CancelEnds(late)
    \/ \E obeyed \in BOOLEAN : CancelAction(obeyed)
    \/ EndOfFile \/ HandlerShutdown \/ After \/ Tail_

ExecutorStep ==
    \/ ExecutorStarts \/ WaitEnds \/ ExecutorAcquires \/ Enter("executor")
    \/ \E obeyed \in BOOLEAN : ExecutorStopsCommand(obeyed)
    \/ ExecutorReleases \/ Join

Next ==
    \/ HandlerStep \/ TriggerExpires
    \/ \E how \in {"ok", "fail"}, text \in {"empty", "other"} : LineEnds(how, text)
    \/ ShellDies
    \/ ExecutorStep \/ LoadgenEnds \/ UserInterrupts

(* Both threads keep running, and loadgen ends when its stop is requested  *)
(* (wait_phase_end() looks every few seconds).  No command has to end, no  *)
(* trigger to fire: the handler waits for both.                            *)
Fairness ==
    /\ WF_vars(HandlerStep /\ pc # "trigger")
    /\ WF_vars(Triggered /\ ~running)
    /\ WF_vars(ExecutorStep)
    /\ WF_vars(LoadgenEnds /\ stop)

Spec == Init /\ [][Next]_vars /\ Fairness

----------------------------------------------------------------------------
(* A result says how the command of its action ended by itself             *)
(* (get_return_code), although the handler only counts prompts: each of    *)
(* its questions has read its own answer, up to the first action that was  *)
(* cancelled or during which both threads were in the lock.  A prompt left *)
(* by then may be taken for the end of the next command, and an empty text *)
(* before it for success.                                                  *)
HonestResult ==
    \A i \in Ids : i < trusted /\ results[i] # "none" =>
        ended[i] = IF results[i] = "SUCCESS" THEN "ok" ELSE "fail"

(* While loadgen runs the monitors judge the traffic whenever no action    *)
(* is under way, however the last one ended.                               *)
WatchingBetweenActions ==
    x = "loadgen" /\ pc \in Gone \cup {"trigger", "go", "tail"} =>
        watching \/ pc = "dead"

(* The executor gets through its shutdown; the one thing that can stop it  *)
(* is a handler that died inside the lock.                                 *)
ExecutorEnds == (x = "shut") ~> (x = "done" \/ pc = "dead")

=============================================================================
