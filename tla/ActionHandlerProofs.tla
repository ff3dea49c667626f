------------------------ MODULE ActionHandlerProofs ------------------------
(***************************************************************************)
(* Proofs about the action handler, for any number of actions.  They do    *)
(* not need the lock to be a mutex: what it allows is in `trusted`.        *)
(***************************************************************************)
EXTENDS ActionHandler, TLAPS

(* the command of an action is written and its prompt not yet read *)
Awaiting == {"written", "loop", "acquire", "in", "expect", "udp", "shut", "shut_in"}
(* in the lock, the shell having been found there *)
InLock == {"expect", "udp", "stopping", "code", "answer", "error"}
InCommand == Awaiting \cup InLock
(* the command of action `index` is still to come *)
Before == {"new", "trigger", "go", "write", "tail"}

Data ==
    /\ index \in Nat \ {0} /\ trusted \in Nat \ {0}
    /\ pc \in (Before \ {"tail"}) \cup InCommand \cup {"after"} => index <= Actions
    /\ executing \in BOOLEAN /\ running \in BOOLEAN /\ node \in BOOLEAN
    /\ watching \in BOOLEAN /\ eof \in BOOLEAN
    /\ results \in [Ids -> {"none", "SUCCESS", "FAILED"}]
    /\ ended \in [Ids -> {"no", "ok", "fail"}]

Terminal ==
    /\ typed \in Seq(Lines) /\ unread \in Seq(Texts)
    /\ status \in {"ok", "fail"}
    /\ ~node => typed = <<>>

(* The handler runs as long as it has a shell, and waits only for what it  *)
(* has written.                                                            *)
Alive ==
    /\ x = "idle" => /\ pc = "new" /\ typed = <<>> /\ unread = <<>> /\ watching
                     /\ ~running /\ (node <=> cfg.ready)
    /\ x # "idle" => (running <=> node)
    /\ node /\ pc \in Before \cup {"after"} => ~executing

(* While the handler is in the lock nobody closes its shell, but for an    *)
(* executor that is in the lock as well.                                   *)
Asked ==
    /\ holders \subseteq Threads
    /\ holders = Threads => trusted <= index
    /\ pc \in InLock => "handler" \in holders /\ (node \/ trusted <= index)
    /\ x = "stopping" => "executor" \in holders /\ (executing \/ trusted <= index)
    /\ pc = "stopping" => trusted <= index
    /\ pc \in Awaiting \ {"written"} /\ node => executing \/ trusted <= index

(* A command that may still end is that of the action under way, or of one *)
(* whose result counts for nothing.                                        *)
Told ==
    /\ \A k \in 1 .. Len(typed) : typed[k] \in Ids =>
           \/ typed[k] = index /\ results[index] = "none"
           \/ trusted <= typed[k]
    /\ \A i \in Ids : i > index \/ (i = index /\ pc \in Before \cup InCommand) =>
           results[i] = "none"

(* Until something is cancelled or shared every line has one prompt and    *)
(* every prompt is read by who asked for it.                               *)
Empty == typed = <<>> /\ unread = <<>>
One == typed = <<>> /\ Len(unread) = 1

Answered == unread[1] = IF ended[index] = "ok" THEN "EL:0" ELSE "EL:n"

InStep ==
    index < trusted /\ node /\ x # "stopping" =>
        /\ pc \in Before \cup {"after"} => Empty /\ ~eof
        /\ pc \in Awaiting =>
               \/ typed = <<index>> /\ unread = <<>> /\ ~eof
               \/ One /\ ~eof /\ ended[index] = status
               \/ Empty /\ eof
        /\ pc = "code" => Empty /\ ~eof /\ ended[index] = status
        /\ pc = "answer" => /\ ended[index] # "no"
                            /\ \/ /\ typed = <<AskCode>> /\ unread = <<>> /\ ~eof
                                  /\ ended[index] = status
                               \/ One /\ ~eof /\ Answered
                               \/ Empty /\ eof
        /\ pc = "error" => /\ ended[index] = "fail"
                           /\ \/ typed = <<AskError>> /\ unread = <<>> /\ ~eof
                              \/ One /\ ~eof
                              \/ Empty /\ eof

(* The monitors are off only during an action that disabled them. *)
Watched ==
    /\ watching \/ Disables
    /\ x = "loadgen" =>
           /\ pc \in InCommand \cup {"go", "write"} => running
           /\ pc \in Gone \cup {"trigger", "go", "tail"} => watching \/ pc = "dead"

IndInv ==
    /\ Data /\ Terminal /\ Alive /\ Asked /\ Told /\ InStep /\ Watched
    /\ HonestResult

----------------------------------------------------------------------------
(* What the operations on the shell do to its two sequences. *)
LEMMA Typing ==
    ASSUME Terminal, NEW line \in Lines, Type(line)
    PROVE  /\ typed' \in Seq(Lines) /\ UNCHANGED <<unread, status, eof>>
           /\ eof => typed' = typed
           /\ ~eof => /\ Len(typed') = Len(typed) + 1
                      /\ typed'[Len(typed) + 1] = line
                      /\ \A k \in 1 .. Len(typed) : typed'[k] = typed[k]
           /\ typed = <<>> /\ ~eof => typed' = <<line>>
<1>1. CASE eof
    BY <1>1 DEF Terminal, Type
<1>2. CASE ~eof
  <2>1. typed \in Seq(Lines) /\ typed' = Append(typed, line)
      BY <1>2 DEF Terminal, Type
  <2>2. typed = <<>> => typed' = <<line>>
      BY <2>1
  <2>3. QED BY <1>2, <2>1, <2>2 DEF Type
<1>3. QED BY <1>1, <1>2

LEMMA Reading ==
    ASSUME Terminal, unread # <<>>, ReadPrompt
    PROVE  /\ unread' \in Seq(Texts) /\ UNCHANGED <<typed, status, eof>>
           /\ Len(unread) = 1 => unread' = <<>>
BY DEF Terminal, ReadPrompt

LEMMA Interrupting ==
    ASSUME Terminal, NEW obeyed \in BOOLEAN, CtrlC(obeyed)
    PROVE  /\ typed' \in Seq(Lines) /\ unread' \in Seq(Texts)
           /\ status' \in {"ok", "fail"} /\ eof' = eof
           /\ \A k \in 1 .. Len(typed') : typed'[k] \in Ids =>
                  k \in 1 .. Len(typed) /\ typed'[k] = typed[k]
<1>1. typed # <<>> => Head(typed) = typed[1] /\ Head(typed) \in Lines /\ 1 \in 1 .. Len(typed)
    BY DEF Terminal
<1>2. Newline \in Lines /\ Newline \notin Ids /\ "empty" \in Texts
    BY ActionsAssumption DEF Newline, Lines, Ids, Texts
<1>3. CASE eof
    BY <1>3 DEF Terminal, CtrlC
<1>4. CASE ~eof
  <2>1. (typed' = <<Head(typed), Newline>> /\ typed # <<>>) \/ typed' = <<Newline>>
      BY <1>4 DEF CtrlC
  <2>2. typed' \in Seq(Lines)
    <3>1. \A a, b \in Lines : <<a, b>> \in Seq(Lines) /\ <<b>> \in Seq(Lines)
        OBVIOUS
    <3>2. QED BY <2>1, <1>1, <1>2, <3>1
  <2>3. unread' \in Seq(Texts) /\ status' \in {"ok", "fail"} /\ eof' = eof
      BY <1>2 DEF CtrlC, Terminal
  <2>4. \A k \in 1 .. Len(typed') : typed'[k] \in Ids =>
            k \in 1 .. Len(typed) /\ typed'[k] = typed[k]
      BY <2>1, <1>1, <1>2
  <2>5. QED BY <2>2, <2>3, <2>4
<1>5. QED BY <1>3, <1>4

LEMMA Ending ==
    ASSUME Terminal, NEW how \in {"ok", "fail"}, NEW text \in {"empty", "other"},
           LineEnds(how, text)
    PROVE  /\ typed' \in Seq(Lines) /\ unread' \in Seq(Texts)
           /\ status' \in {"ok", "fail"}
           /\ typed # <<>> /\ typed[1] \in Lines
           /\ \A k \in 1 .. Len(typed') : k + 1 \in 1 .. Len(typed) /\ typed'[k] = typed[k + 1]
           /\ Len(unread') = Len(unread) + 1
           /\ Len(typed) = 1 => typed' = <<>>
<1>1. typed # <<>> /\ typed' = Tail(typed) /\ Head(typed) = typed[1]
    BY DEF LineEnds, Terminal
<1>2. PICK s \in Texts : unread' = Append(unread, s)
  <2>1. CASE Head(typed) \in Ids
      BY <2>1 DEF LineEnds, Texts
  <2>2. CASE Head(typed) \notin Ids
      BY <2>2 DEF LineEnds, Texts
  <2>3. QED BY <2>1, <2>2
<1>3. status' \in {"ok", "fail"}
    BY DEF LineEnds, Terminal
<1>4. /\ typed' \in Seq(Lines) /\ typed[1] \in Lines
      /\ \A k \in 1 .. Len(typed') : k + 1 \in 1 .. Len(typed) /\ typed'[k] = typed[k + 1]
      /\ Len(typed) = 1 => typed' = <<>>
    BY <1>1 DEF Terminal
<1>5. unread' \in Seq(Texts) /\ Len(unread') = Len(unread) + 1
    BY <1>2 DEF Terminal
<1>6. QED BY <1>1, <1>3, <1>4, <1>5

LockStep ==
    /\ holders \subseteq holders' /\ holders' \subseteq Threads
    /\ trusted' \in Nat \ {0} /\ trusted' <= trusted
    /\ holders' = Threads => trusted' <= index
    /\ pc' \in Awaiting <=> pc \in Awaiting
    /\ pc' = pc \/ {pc, pc'} \subseteq Awaiting
    /\ x' = "stopping" <=> x = "stopping"
    /\ UNCHANGED <<cfg, index, executing, error_code, running, node,
                   typed, unread, status, eof, waiting, stop, verdict,
                   results, watching, ended>>

(* Whoever gets the lock as the second makes the action count for nothing. *)
LEMMA Locking ==
    ASSUME Data, holders \subseteq Threads, holders = Threads => trusted <= index,
           HandlerAcquires \/ ExecutorAcquires \/ (\E t \in Threads : Enter(t))
    PROVE  LockStep
<1>1. holders \subseteq holders' /\ holders' \subseteq Threads
    BY DEF HandlerAcquires, ExecutorAcquires, Enter, Mutex!AcquireFree,
           Mutex!AcquireBusy, Mutex!Enter, Threads, lock
<1>2. (holders' = Threads /\ Distrust) \/ (holders' # Threads /\ trusted' = trusted)
    BY DEF HandlerAcquires, ExecutorAcquires, Enter
<1>3. /\ trusted' \in Nat \ {0} /\ trusted' <= trusted
      /\ holders' = Threads => trusted' <= index
    BY <1>2 DEF Distrust, Data
<1>4. UNCHANGED <<cfg, index, executing, error_code, running, node, typed, unread,
                  status, eof, waiting, stop, verdict, results, watching, ended>>
    BY DEF HandlerAcquires, ExecutorAcquires, Enter, handler, told, shell
<1>5. pc' = pc \/ (pc \in {"acquire", "shut"} /\ pc' \in {"in", "shut_in"})
    BY DEF HandlerAcquires, Enter, ExecutorAcquires, handler
<1>6. x' = x \/ (x = "shut" /\ x' \in {"shut_in", "join"})
    BY DEF HandlerAcquires, Enter, ExecutorAcquires, handler
<1>7. QED BY <1>1, <1>3, <1>4, <1>5, <1>6 DEF Awaiting, LockStep

(* A handler that has entered the lock, until its action is spoilt, has    *)
(* its shell to itself and knows what to read next.                        *)
LEMMA Undisturbed ==
    ASSUME Asked, InStep, index < trusted, pc \in InLock, Data
    PROVE  /\ node /\ x # "stopping" /\ pc # "stopping"
           /\ pc = "code" => Empty /\ ~eof /\ ended[index] = status
           /\ pc = "expect" => executing
           /\ unread # <<>> /\ pc # "code" => One /\ ~eof
           /\ unread # <<>> /\ pc \in {"expect", "udp"} => ended[index] = status
           /\ unread # <<>> /\ pc = "answer" => Answered /\ ended[index] # "no"
           /\ pc = "error" => ended[index] = "fail"
<1>1. node /\ x # "stopping" /\ pc # "stopping" /\ (pc = "expect" => executing)
  <2>1. ~(trusted <= index)
      BY DEF Data
  <2>2. node /\ "handler" \in holders /\ holders # Threads
      BY <2>1 DEF Asked
  <2>3. pc # "stopping" /\ x # "stopping"
      BY <2>1, <2>2 DEF Asked, Threads
  <2>4. pc = "expect" => executing
      BY <2>1, <2>2 DEF Asked, Awaiting
  <2>5. QED BY <2>2, <2>3, <2>4
<1>2. CASE pc \in {"expect", "udp"}
    BY <1>1, <1>2 DEF InStep, Awaiting, InLock, One, Empty
<1>3. CASE pc = "code"
    BY <1>1, <1>3 DEF InStep, Empty
<1>4. CASE pc = "answer"
    BY <1>1, <1>4 DEF InStep, Empty, One
<1>5. CASE pc = "error"
    BY <1>1, <1>5 DEF InStep, Empty, One
<1>6. QED BY <1>1, <1>2, <1>3, <1>4, <1>5 DEF InLock

----------------------------------------------------------------------------
(* One step of either thread, or of the shell, keeps each part. *)
LEMMA StepKeepsData ==
    ASSUME Data, Terminal, Alive, Asked, [Next]_vars
    PROVE  Data'
<1> USE ActionsAssumption DEF Data, Alive, Disables, Ids, InCommand, Awaiting,
        InLock, Before, Gone, handler, lock, told, shell, Leave, Inside, Type,
        ReadPrompt, CloseShell, CtrlC, Distrust
<1>1. CASE Triggered \/ DisableMonitors \/ Loop
    BY <1>1 DEF Triggered, DisableMonitors, Loop
<1>2. CASE TriggerExpires
    BY <1>2 DEF TriggerExpires
<1>3. CASE MarkExecuting
    BY <1>3 DEF MarkExecuting
<1>4. CASE WriteCommand
    BY <1>4 DEF WriteCommand
<1>5. CASE HandlerAcquires
  <2>1. LockStep
      BY <1>5, Locking DEF Asked
  <2>2. QED BY <2>1 DEF LockStep
<1>6. CASE NodeChecked
    BY <1>6 DEF NodeChecked
<1>7. CASE ClosedInLock
    BY <1>7 DEF ClosedInLock
<1>8. CASE Timeout
    BY <1>8 DEF Timeout
<1>9. CASE Prompt
    BY <1>9 DEF Prompt
<1>10. CASE AskReturnCode
    BY <1>10 DEF AskReturnCode, Report
<1>11. CASE ErrorInfo
    BY <1>11 DEF ErrorInfo, Report
<1>12. CASE ReturnCodeRaises
    BY <1>12 DEF ReturnCodeRaises
<1>13. CASE CancelClosed
    BY <1>13 DEF CancelClosed
<1>14. CASE EndOfFile
    BY <1>14 DEF EndOfFile
<1>15. CASE HandlerShutdown
    BY <1>15 DEF HandlerShutdown
<1>16. CASE After
  <2>1. index + 1 \in Nat \ {0} /\ Actions + 1 \in Nat \ {0}
      OBVIOUS
  <2>2. index' \in Nat \ {0}
      BY <1>16, <2>1 DEF After
  <2>3. QED BY <1>16, <2>2 DEF After
<1>17. CASE Tail_
    BY <1>17 DEF Tail_
<1>18. CASE ExecutorStarts
    BY <1>18 DEF ExecutorStarts
<1>19. CASE WaitEnds \/ Join \/ LoadgenEnds \/ UserInterrupts
    BY <1>19 DEF WaitEnds, Join, LoadgenEnds, UserInterrupts
<1>20. CASE ExecutorAcquires
    BY <1>20 DEF ExecutorAcquires
<1>21. CASE ExecutorReleases
    BY <1>21 DEF ExecutorReleases
<1>22. CASE ShellDies
    BY <1>22 DEF ShellDies
<1>23. CASE UNCHANGED vars
    BY <1>23 DEF vars
<1>24. ASSUME NEW t \in Threads, Enter(t)
      PROVE  Data'
    BY <1>24 DEF Enter, Mutex!Enter
<1>25. ASSUME NEW shown \in BOOLEAN, ReturnCode(shown)
      PROVE  Data'
    BY <1>25 DEF ReturnCode, Report
<1>26. ASSUME NEW late \in BOOLEAN, NoOrder(late)
      PROVE  Data'
    BY <1>26 DEF NoOrder, Continue
<1>27. ASSUME NEW late \in BOOLEAN, CancelEnds(late)
      PROVE  Data'
    BY <1>27 DEF CancelEnds, Continue
<1>28. ASSUME NEW obeyed \in BOOLEAN, CancelAction(obeyed)
      PROVE  Data'
    BY <1>28 DEF CancelAction
<1>29. ASSUME NEW obeyed \in BOOLEAN, ExecutorStopsCommand(obeyed)
      PROVE  Data'
    BY <1>29 DEF ExecutorStopsCommand
<1>30. ASSUME NEW how \in {"ok", "fail"}, NEW text \in {"empty", "other"}, LineEnds(how, text)
      PROVE  Data'
    BY <1>30 DEF LineEnds
<1>31. QED
    BY <1>1, <1>2, <1>3, <1>4, <1>5, <1>6, <1>7, <1>8, <1>9, <1>10, <1>11,
       <1>12, <1>13, <1>14, <1>15, <1>16, <1>17, <1>18, <1>19, <1>20, <1>21,
       <1>22, <1>23, <1>24, <1>25, <1>26, <1>27, <1>28, <1>29, <1>30
       DEF Next, HandlerStep, ExecutorStep, Threads

LEMMA StepKeepsTerminal ==
    ASSUME Data, Terminal, [Next]_vars
    PROVE  Terminal'
<1> USE ActionsAssumption DEF Terminal, shell, ReadPrompt, CloseShell
<1>1. CASE Triggered \/ DisableMonitors \/ Loop
    BY <1>1 DEF Triggered, DisableMonitors, Loop
<1>2. CASE TriggerExpires
    BY <1>2 DEF TriggerExpires
<1>3. CASE MarkExecuting
    BY <1>3 DEF MarkExecuting
<1>4. CASE WriteCommand
  <2>1. index \in Lines
      BY <1>4 DEF WriteCommand, Data, Before, Lines, Ids
  <2>2. QED BY <1>4, <2>1, Typing DEF WriteCommand
<1>5. CASE HandlerAcquires
    BY <1>5 DEF HandlerAcquires
<1>6. CASE NodeChecked
    BY <1>6 DEF NodeChecked
<1>7. CASE ClosedInLock
    BY <1>7 DEF ClosedInLock
<1>8. CASE Timeout
    BY <1>8 DEF Timeout
<1>9. CASE Prompt
    BY <1>9, Reading DEF Prompt
<1>10. CASE AskReturnCode
  <2>1. AskCode \in Lines
      BY DEF AskCode, Lines
  <2>2. QED BY <1>10, <2>1, Typing DEF AskReturnCode
<1>11. CASE ErrorInfo
    BY <1>11, Reading DEF ErrorInfo, Report
<1>12. CASE ReturnCodeRaises
    BY <1>12 DEF ReturnCodeRaises
<1>13. CASE CancelClosed
    BY <1>13 DEF CancelClosed
<1>14. CASE EndOfFile
    BY <1>14 DEF EndOfFile
<1>15. CASE HandlerShutdown
  <2>1. UNCHANGED <<typed, unread, status, node>> \/ CloseShell
      BY <1>15 DEF HandlerShutdown
  <2>2. <<>> \in Seq(Lines) /\ <<>> \in Seq(Texts)
      OBVIOUS
  <2>3. CASE UNCHANGED <<typed, unread, status, node>>
      BY <2>3
  <2>4. CASE CloseShell
      BY <2>2, <2>4
  <2>5. QED BY <2>1, <2>3, <2>4
<1>16. CASE After
  <2>1. UNCHANGED <<typed, unread, status, node>> \/ CloseShell
      BY <1>16 DEF After
  <2>2. <<>> \in Seq(Lines) /\ <<>> \in Seq(Texts)
      OBVIOUS
  <2>3. CASE UNCHANGED <<typed, unread, status, node>>
      BY <2>3
  <2>4. CASE CloseShell
      BY <2>2, <2>4
  <2>5. QED BY <2>1, <2>3, <2>4
<1>17. CASE Tail_
    BY <1>17 DEF Tail_
<1>18. CASE ExecutorStarts
    BY <1>18 DEF ExecutorStarts
<1>19. CASE WaitEnds \/ Join \/ LoadgenEnds \/ UserInterrupts
    BY <1>19 DEF WaitEnds, Join, LoadgenEnds, UserInterrupts
<1>20. CASE ExecutorAcquires
    BY <1>20 DEF ExecutorAcquires
<1>21. CASE ExecutorReleases
    BY <1>21 DEF ExecutorReleases
<1>22. CASE ShellDies
    BY <1>22 DEF ShellDies
<1>23. CASE UNCHANGED vars
    BY <1>23 DEF vars
<1>24. ASSUME NEW t \in Threads, Enter(t)
      PROVE  Terminal'
    BY <1>24 DEF Enter, Mutex!Enter
<1>25. ASSUME NEW shown \in BOOLEAN, ReturnCode(shown)
      PROVE  Terminal'
  <2>1. AskError \in Lines
      BY DEF AskError, Lines
  <2>2. /\ node' = node /\ node /\ status' = status
        /\ typed' = typed \/ typed' = Append(typed, AskError)
      BY <1>25 DEF ReturnCode
  <2>3. unread' \in Seq(Texts)
      BY <1>25 DEF ReturnCode
  <2>4. QED BY <2>1, <2>2, <2>3
<1>26. ASSUME NEW late \in BOOLEAN, NoOrder(late)
      PROVE  Terminal'
    BY <1>26 DEF NoOrder, Continue
<1>27. ASSUME NEW late \in BOOLEAN, CancelEnds(late)
      PROVE  Terminal'
    BY <1>27, Reading DEF CancelEnds, Continue
<1>28. ASSUME NEW obeyed \in BOOLEAN, CancelAction(obeyed)
      PROVE  Terminal'
    BY <1>28, Interrupting DEF CancelAction
<1>29. ASSUME NEW obeyed \in BOOLEAN, ExecutorStopsCommand(obeyed)
      PROVE  Terminal'
    BY <1>29, Interrupting DEF ExecutorStopsCommand
<1>30. ASSUME NEW how \in {"ok", "fail"}, NEW text \in {"empty", "other"}, LineEnds(how, text)
      PROVE  Terminal'
    BY <1>30, Ending DEF LineEnds
<1>31. QED
    BY <1>1, <1>2, <1>3, <1>4, <1>5, <1>6, <1>7, <1>8, <1>9, <1>10, <1>11,
       <1>12, <1>13, <1>14, <1>15, <1>16, <1>17, <1>18, <1>19, <1>20, <1>21,
       <1>22, <1>23, <1>24, <1>25, <1>26, <1>27, <1>28, <1>29, <1>30
       DEF Next, HandlerStep, ExecutorStep, Threads

LEMMA StepKeepsAlive ==
    ASSUME Data, Alive, [Next]_vars
    PROVE  Alive'
<1> USE ActionsAssumption DEF Data, Alive, InCommand, Awaiting, InLock,
        Before, Gone, handler, lock, told, shell, Leave, Inside, Type,
        ReadPrompt, CloseShell, CtrlC, Distrust
<1>1. CASE Triggered \/ DisableMonitors \/ Loop
    BY <1>1 DEF Triggered, DisableMonitors, Loop
<1>2. CASE TriggerExpires
    BY <1>2 DEF TriggerExpires
<1>3. CASE MarkExecuting
    BY <1>3 DEF MarkExecuting
<1>4. CASE WriteCommand
    BY <1>4 DEF WriteCommand
<1>5. CASE HandlerAcquires
    BY <1>5 DEF HandlerAcquires
<1>6. CASE NodeChecked
    BY <1>6 DEF NodeChecked
<1>7. CASE ClosedInLock
    BY <1>7 DEF ClosedInLock
<1>8. CASE Timeout
    BY <1>8 DEF Timeout
<1>9. CASE Prompt
    BY <1>9 DEF Prompt
<1>10. CASE AskReturnCode
    BY <1>10 DEF AskReturnCode, Report
<1>11. CASE ErrorInfo
    BY <1>11 DEF ErrorInfo, Report
<1>12. CASE ReturnCodeRaises
    BY <1>12 DEF ReturnCodeRaises
<1>13. CASE CancelClosed
    BY <1>13 DEF CancelClosed
<1>14. CASE EndOfFile
    BY <1>14 DEF EndOfFile
<1>15. CASE HandlerShutdown
    BY <1>15 DEF HandlerShutdown
<1>16. CASE After
    BY <1>16 DEF After
<1>17. CASE Tail_
    BY <1>17 DEF Tail_
<1>18. CASE ExecutorStarts
    BY <1>18 DEF ExecutorStarts
<1>19. CASE WaitEnds \/ Join \/ LoadgenEnds \/ UserInterrupts
    BY <1>19 DEF WaitEnds, Join, LoadgenEnds, UserInterrupts
<1>20. CASE ExecutorAcquires
    BY <1>20 DEF ExecutorAcquires
<1>21. CASE ExecutorReleases
    BY <1>21 DEF ExecutorReleases
<1>22. CASE ShellDies
    BY <1>22 DEF ShellDies
<1>23. CASE UNCHANGED vars
    BY <1>23 DEF vars
<1>24. ASSUME NEW t \in Threads, Enter(t)
      PROVE  Alive'
    BY <1>24 DEF Enter, Mutex!Enter
<1>25. ASSUME NEW shown \in BOOLEAN, ReturnCode(shown)
      PROVE  Alive'
    BY <1>25 DEF ReturnCode, Report
<1>26. ASSUME NEW late \in BOOLEAN, NoOrder(late)
      PROVE  Alive'
    BY <1>26 DEF NoOrder, Continue
<1>27. ASSUME NEW late \in BOOLEAN, CancelEnds(late)
      PROVE  Alive'
    BY <1>27 DEF CancelEnds, Continue
<1>28. ASSUME NEW obeyed \in BOOLEAN, CancelAction(obeyed)
      PROVE  Alive'
    BY <1>28 DEF CancelAction
<1>29. ASSUME NEW obeyed \in BOOLEAN, ExecutorStopsCommand(obeyed)
      PROVE  Alive'
    BY <1>29 DEF ExecutorStopsCommand
<1>30. ASSUME NEW how \in {"ok", "fail"}, NEW text \in {"empty", "other"}, LineEnds(how, text)
      PROVE  Alive'
    BY <1>30 DEF LineEnds
<1>31. QED
    BY <1>1, <1>2, <1>3, <1>4, <1>5, <1>6, <1>7, <1>8, <1>9, <1>10, <1>11,
       <1>12, <1>13, <1>14, <1>15, <1>16, <1>17, <1>18, <1>19, <1>20, <1>21,
       <1>22, <1>23, <1>24, <1>25, <1>26, <1>27, <1>28, <1>29, <1>30
       DEF Next, HandlerStep, ExecutorStep, Threads

LEMMA StepKeepsAsked ==
    ASSUME Data, Alive, Asked, [Next]_vars
    PROVE  Asked'
<1> USE ActionsAssumption DEF Data, Alive, Asked, Mutex!Release, Threads,
        InCommand, Awaiting, InLock, Before, Gone, handler, lock, told, shell,
        Leave, Inside, ReadPrompt, CloseShell, Distrust
<1>1. CASE Triggered \/ DisableMonitors \/ Loop
    BY <1>1 DEF Triggered, DisableMonitors, Loop
<1>2. CASE TriggerExpires
    BY <1>2 DEF TriggerExpires
<1>3. CASE MarkExecuting
    BY <1>3 DEF MarkExecuting
<1>4. CASE WriteCommand
    BY <1>4 DEF WriteCommand
<1>5. CASE HandlerAcquires
  <2>1. LockStep
      BY <1>5, Locking
  <2>2. QED BY <1>5, <2>1 DEF LockStep, HandlerAcquires, ExecutorAcquires, Enter
<1>6. CASE NodeChecked
    BY <1>6 DEF NodeChecked
<1>7. CASE ClosedInLock
    BY <1>7 DEF ClosedInLock
<1>8. CASE Timeout
    BY <1>8 DEF Timeout
<1>9. CASE Prompt
    BY <1>9 DEF Prompt
<1>10. CASE AskReturnCode
    BY <1>10 DEF AskReturnCode, Report
<1>11. CASE ErrorInfo
    BY <1>11 DEF ErrorInfo, Report
<1>12. CASE ReturnCodeRaises
    BY <1>12 DEF ReturnCodeRaises
<1>13. CASE CancelClosed
    BY <1>13 DEF CancelClosed
<1>14. CASE EndOfFile
    BY <1>14 DEF EndOfFile
<1>15. CASE HandlerShutdown
    BY <1>15 DEF HandlerShutdown
<1>16. CASE After
    BY <1>16 DEF After
<1>17. CASE Tail_
    BY <1>17 DEF Tail_
<1>18. CASE ExecutorStarts
    BY <1>18 DEF ExecutorStarts
<1>19. CASE WaitEnds \/ Join \/ LoadgenEnds \/ UserInterrupts
  <2>1. /\ UNCHANGED <<pc, index, executing, node, holders, trusted>>
        /\ x' # "stopping"
      BY <1>19
         DEF WaitEnds, Join, LoadgenEnds, UserInterrupts
  <2>2. QED BY <2>1
<1>20. CASE ExecutorAcquires
  <2>1. LockStep
      BY <1>20, Locking
  <2>2. QED BY <1>20, <2>1 DEF LockStep, HandlerAcquires, ExecutorAcquires, Enter
<1>21. CASE ExecutorReleases
    BY <1>21 DEF ExecutorReleases
<1>22. CASE ShellDies
    BY <1>22 DEF ShellDies
<1>23. CASE UNCHANGED vars
    BY <1>23 DEF vars
<1>24. ASSUME NEW t \in Threads, Enter(t)
      PROVE  Asked'
  <2>1. LockStep
      BY <1>24, Locking
  <2>2. QED BY <1>24, <2>1 DEF LockStep, HandlerAcquires, ExecutorAcquires, Enter
<1>25. ASSUME NEW shown \in BOOLEAN, ReturnCode(shown)
      PROVE  Asked'
    BY <1>25 DEF ReturnCode, Report
<1>26. ASSUME NEW late \in BOOLEAN, NoOrder(late)
      PROVE  Asked'
    BY <1>26 DEF NoOrder, Continue
<1>27. ASSUME NEW late \in BOOLEAN, CancelEnds(late)
      PROVE  Asked'
    BY <1>27 DEF CancelEnds, Continue
<1>28. ASSUME NEW obeyed \in BOOLEAN, CancelAction(obeyed)
      PROVE  Asked'
    BY <1>28 DEF CancelAction
<1>29. ASSUME NEW obeyed \in BOOLEAN, ExecutorStopsCommand(obeyed)
      PROVE  Asked'
    BY <1>29 DEF ExecutorStopsCommand
<1>30. ASSUME NEW how \in {"ok", "fail"}, NEW text \in {"empty", "other"}, LineEnds(how, text)
      PROVE  Asked'
    BY <1>30 DEF LineEnds
<1>31. QED
    BY <1>1, <1>2, <1>3, <1>4, <1>5, <1>6, <1>7, <1>8, <1>9, <1>10, <1>11,
       <1>12, <1>13, <1>14, <1>15, <1>16, <1>17, <1>18, <1>19, <1>20, <1>21,
       <1>22, <1>23, <1>24, <1>25, <1>26, <1>27, <1>28, <1>29, <1>30
       DEF Next, HandlerStep, ExecutorStep, Threads

LEMMA StepKeepsWatched ==
    ASSUME Data, Alive, Asked, Watched, [Next]_vars
    PROVE  Watched'
<1> USE ActionsAssumption DEF Data, Alive, Asked, Watched, Disables,
        InCommand, Awaiting, InLock, Before, Gone, handler, lock, told, shell,
        Leave, Inside, CloseShell, Distrust
<1>1. CASE Triggered \/ DisableMonitors \/ Loop
    BY <1>1 DEF Triggered, DisableMonitors, Loop
<1>2. CASE TriggerExpires
    BY <1>2 DEF TriggerExpires
<1>3. CASE MarkExecuting
    BY <1>3 DEF MarkExecuting
<1>4. CASE WriteCommand
    BY <1>4 DEF WriteCommand
<1>5. CASE HandlerAcquires
  <2>1. LockStep
      BY <1>5, Locking
  <2>2. pc' \in Gone => pc = pc'
      BY <2>1 DEF LockStep
  <2>3. x' = "loadgen" => x = "loadgen"
      BY <1>5 DEF HandlerAcquires, ExecutorAcquires, Enter
  <2>4. QED BY <2>1, <2>2, <2>3 DEF LockStep
<1>6. CASE NodeChecked
  <2>1. /\ UNCHANGED <<cfg, index, running, node, watching, x, trusted>>
        /\ pc = "in" /\ pc' = IF node THEN "expect" ELSE "returned"
      BY <1>6 DEF NodeChecked
  <2>2. QED BY <2>1
<1>7. CASE ClosedInLock
    BY <1>7 DEF ClosedInLock
<1>8. CASE Timeout
    BY <1>8 DEF Timeout
<1>9. CASE Prompt
    BY <1>9 DEF Prompt
<1>10. CASE AskReturnCode
    BY <1>10 DEF AskReturnCode, Report
<1>11. CASE ErrorInfo
    BY <1>11 DEF ErrorInfo, Report
<1>12. CASE ReturnCodeRaises
    BY <1>12 DEF ReturnCodeRaises
<1>13. CASE CancelClosed
    BY <1>13 DEF CancelClosed
<1>14. CASE EndOfFile
    BY <1>14 DEF EndOfFile
<1>15. CASE HandlerShutdown
    BY <1>15 DEF HandlerShutdown
<1>16. CASE After
    BY <1>16 DEF After
<1>17. CASE Tail_
    BY <1>17 DEF Tail_
<1>18. CASE ExecutorStarts
    BY <1>18 DEF ExecutorStarts
<1>19. CASE WaitEnds \/ Join \/ LoadgenEnds \/ UserInterrupts
    BY <1>19 DEF WaitEnds, Join, LoadgenEnds, UserInterrupts
<1>20. CASE ExecutorAcquires
  <2>1. LockStep
      BY <1>20, Locking
  <2>2. pc' \in Gone => pc = pc'
      BY <2>1 DEF LockStep
  <2>3. x' = "loadgen" => x = "loadgen"
      BY <1>20 DEF HandlerAcquires, ExecutorAcquires, Enter
  <2>4. QED BY <2>1, <2>2, <2>3 DEF LockStep
<1>21. CASE ExecutorReleases
    BY <1>21 DEF ExecutorReleases
<1>22. CASE ShellDies
    BY <1>22 DEF ShellDies
<1>23. CASE UNCHANGED vars
    BY <1>23 DEF vars
<1>24. ASSUME NEW t \in Threads, Enter(t)
      PROVE  Watched'
  <2>1. LockStep
      BY <1>24, Locking
  <2>2. pc' \in Gone => pc = pc'
      BY <2>1 DEF LockStep
  <2>3. x' = "loadgen" => x = "loadgen"
      BY <1>24 DEF HandlerAcquires, ExecutorAcquires, Enter
  <2>4. QED BY <2>1, <2>2, <2>3 DEF LockStep
<1>25. ASSUME NEW shown \in BOOLEAN, ReturnCode(shown)
      PROVE  Watched'
    BY <1>25 DEF ReturnCode, Report
<1>26. ASSUME NEW late \in BOOLEAN, NoOrder(late)
      PROVE  Watched'
    BY <1>26 DEF NoOrder, Continue
<1>27. ASSUME NEW late \in BOOLEAN, CancelEnds(late)
      PROVE  Watched'
    BY <1>27 DEF CancelEnds, Continue
<1>28. ASSUME NEW obeyed \in BOOLEAN, CancelAction(obeyed)
      PROVE  Watched'
    BY <1>28 DEF CancelAction
<1>29. ASSUME NEW obeyed \in BOOLEAN, ExecutorStopsCommand(obeyed)
      PROVE  Watched'
    BY <1>29 DEF ExecutorStopsCommand
<1>30. ASSUME NEW how \in {"ok", "fail"}, NEW text \in {"empty", "other"}, LineEnds(how, text)
      PROVE  Watched'
    BY <1>30 DEF LineEnds
<1>31. QED
    BY <1>1, <1>2, <1>3, <1>4, <1>5, <1>6, <1>7, <1>8, <1>9, <1>10, <1>11,
       <1>12, <1>13, <1>14, <1>15, <1>16, <1>17, <1>18, <1>19, <1>20, <1>21,
       <1>22, <1>23, <1>24, <1>25, <1>26, <1>27, <1>28, <1>29, <1>30
       DEF Next, HandlerStep, ExecutorStep, Threads

LEMMA StepKeepsTold ==
    ASSUME Data, Terminal, Alive, Asked, InStep, Told, [Next]_vars
    PROVE  Told'
<1> USE ActionsAssumption DEF Told, Data, InCommand, Awaiting, InLock, Before,
        Gone, handler, lock, told, shell, Leave, Inside, Distrust
<1>1. CASE Triggered \/ DisableMonitors \/ Loop
    BY <1>1 DEF Triggered, DisableMonitors, Loop
<1>2. CASE TriggerExpires
    BY <1>2 DEF TriggerExpires
<1>3. CASE MarkExecuting
    BY <1>3 DEF MarkExecuting
<1>4. CASE WriteCommand
    BY <1>4, Typing DEF WriteCommand, Lines, Ids
<1>5. CASE HandlerAcquires
  <2>1. LockStep
      BY <1>5, Locking DEF Asked
  <2>2. /\ UNCHANGED <<typed, results, index>> /\ trusted' <= trusted
        /\ trusted' \in Nat /\ (pc' = pc \/ {pc, pc'} \subseteq Awaiting)
      BY <2>1 DEF LockStep
  <2>3. \A k \in 1 .. Len(typed') : typed'[k] \in Ids =>
            \/ typed'[k] = index' /\ results'[index'] = "none"
            \/ trusted' <= typed'[k]
      BY <2>2
  <2>4. QED BY <2>2, <2>3
<1>6. CASE NodeChecked
    BY <1>6 DEF NodeChecked
<1>7. CASE ClosedInLock
    BY <1>7 DEF ClosedInLock
<1>8. CASE Timeout
    BY <1>8 DEF Timeout
<1>9. CASE Prompt
    BY <1>9, Reading DEF Prompt
<1>10. CASE AskReturnCode
  <2>1. CASE node
      BY <1>10, <2>1, Typing DEF AskReturnCode, AskCode, Lines, Ids
  <2>2. CASE ~node
    <3>1. /\ typed' = typed /\ typed = <<>> /\ index' = index /\ pc' = "after"
          /\ results' = [results EXCEPT ![index] = "FAILED"]
        BY <1>10, <2>2 DEF AskReturnCode, Report, Terminal
    <3>2. QED BY <3>1
  <2>3. QED BY <2>1, <2>2
<1>11. CASE ErrorInfo
  <2>1. /\ typed' = typed /\ index' = index /\ trusted' = trusted /\ pc' = "after"
        /\ results' = [results EXCEPT ![index] = "FAILED"] /\ unread # <<>>
      BY <1>11, Reading DEF ErrorInfo, Report
  <2>2. typed = <<>> \/ trusted <= index
      BY <1>11, <2>1, Undisturbed DEF ErrorInfo, One
  <2>3. QED BY <2>1, <2>2
<1>12. CASE ReturnCodeRaises
    BY <1>12 DEF ReturnCodeRaises
<1>13. CASE CancelClosed
    BY <1>13 DEF CancelClosed
<1>14. CASE EndOfFile
    BY <1>14 DEF EndOfFile
<1>15. CASE HandlerShutdown
    BY <1>15 DEF HandlerShutdown, CloseShell
<1>16. CASE After
  <2>1. /\ pc = "after" /\ pc' = "tail" /\ results' = results /\ trusted' = trusted
        /\ typed' = <<>> \/ (typed' = typed /\ index' = index + 1)
        /\ index' \in {index + 1, Actions + 1}
      BY <1>16 DEF After, CloseShell
  <2>2. typed = <<>> \/ trusted <= index
      BY <2>1 DEF InStep, Empty, Asked, Alive, Terminal
  <2>3. \A k \in 1 .. Len(typed') : typed'[k] \in Ids => trusted <= typed'[k]
      BY <2>1, <2>2
  <2>4. \A i \in Ids : i >= index' => results'[i] = "none"
      BY <2>1 DEF Ids
  <2>5. QED BY <2>1, <2>3, <2>4
<1>17. CASE Tail_
    BY <1>17 DEF Tail_
<1>18. CASE ExecutorStarts
    BY <1>18 DEF ExecutorStarts, Alive
<1>19. CASE WaitEnds \/ Join \/ LoadgenEnds \/ UserInterrupts
    BY <1>19 DEF WaitEnds, Join, LoadgenEnds, UserInterrupts
<1>20. CASE ExecutorAcquires
  <2>1. LockStep
      BY <1>20, Locking DEF Asked
  <2>2. /\ UNCHANGED <<typed, results, index>> /\ trusted' <= trusted
        /\ trusted' \in Nat /\ (pc' = pc \/ {pc, pc'} \subseteq Awaiting)
      BY <2>1 DEF LockStep
  <2>3. \A k \in 1 .. Len(typed') : typed'[k] \in Ids =>
            \/ typed'[k] = index' /\ results'[index'] = "none"
            \/ trusted' <= typed'[k]
      BY <2>2
  <2>4. QED BY <2>2, <2>3
<1>21. CASE ExecutorReleases
    BY <1>21 DEF ExecutorReleases, CloseShell
<1>22. CASE ShellDies
    BY <1>22 DEF ShellDies
<1>23. CASE UNCHANGED vars
    BY <1>23 DEF vars
<1>24. ASSUME NEW t \in Threads, Enter(t)
      PROVE  Told'
  <2>1. LockStep
      BY <1>24, Locking DEF Asked
  <2>2. /\ UNCHANGED <<typed, results, index>> /\ trusted' <= trusted
        /\ trusted' \in Nat /\ (pc' = pc \/ {pc, pc'} \subseteq Awaiting)
      BY <2>1 DEF LockStep
  <2>3. \A k \in 1 .. Len(typed') : typed'[k] \in Ids =>
            \/ typed'[k] = index' /\ results'[index'] = "none"
            \/ trusted' <= typed'[k]
      BY <2>2
  <2>4. QED BY <2>2, <2>3
<1>25. ASSUME NEW shown \in BOOLEAN, ReturnCode(shown)
      PROVE  Told'
  <2>1. /\ index' = index /\ trusted' = trusted /\ pc = "answer" /\ unread # <<>>
      BY <1>25 DEF ReturnCode
  <2>2. CASE pc' = "after"
    <3>1. typed' = typed /\ results' \in {[results EXCEPT ![index] = r] : r \in {"SUCCESS", "FAILED"}}
        BY <1>25, <2>2 DEF ReturnCode, Report
    <3>2. typed = <<>> \/ trusted <= index
        BY <2>1, Undisturbed DEF One
    <3>3. QED BY <2>1, <2>2, <3>1, <3>2
  <2>3. CASE pc' # "after"
    <3>1. /\ pc' = "error" /\ results' = results
          /\ typed' = typed \/ typed' = Append(typed, AskError)
        BY <1>25, <2>3 DEF ReturnCode, Report
    <3>2. \A k \in 1 .. Len(typed') : typed'[k] \in Ids =>
              k \in 1 .. Len(typed) /\ typed'[k] = typed[k]
      <4>1. AskError \notin Ids
          BY DEF AskError
      <4>2. CASE typed' = typed
          BY <4>2
      <4>3. CASE typed' = Append(typed, AskError)
          BY <4>1, <4>3 DEF Terminal
      <4>4. QED BY <3>1, <4>2, <4>3
    <3>3. QED BY <2>1, <3>1, <3>2
  <2>4. QED BY <2>2, <2>3
<1>26. ASSUME NEW late \in BOOLEAN, NoOrder(late)
      PROVE  Told'
    BY <1>26 DEF NoOrder, Continue
<1>27. ASSUME NEW late \in BOOLEAN, CancelEnds(late)
      PROVE  Told'
    BY <1>27, Reading DEF CancelEnds, Continue
<1>28. ASSUME NEW obeyed \in BOOLEAN, CancelAction(obeyed)
      PROVE  Told'
  <2>1. /\ trusted' <= trusted /\ trusted' \in Nat
        /\ pc' = "stopping" /\ pc = "udp"
        /\ index' = index /\ results' = results
      BY <1>28 DEF CancelAction
  <2>2. \A k \in 1 .. Len(typed') : typed'[k] \in Ids =>
            k \in 1 .. Len(typed) /\ typed'[k] = typed[k]
      BY <1>28, Interrupting DEF CancelAction
  <2>3. \A k \in 1 .. Len(typed') : typed'[k] \in Ids =>
            \/ typed'[k] = index' /\ results'[index'] = "none"
            \/ trusted' <= typed'[k]
    <3>1. TAKE k \in 1 .. Len(typed')
    <3>2. HAVE typed'[k] \in Ids
    <3>3. k \in 1 .. Len(typed) /\ typed'[k] = typed[k] /\ typed[k] \in Nat
        BY <2>2, <3>2
    <3>4. QED BY <2>1, <3>2, <3>3
  <2>4. QED BY <2>1, <2>3
<1>29. ASSUME NEW obeyed \in BOOLEAN, ExecutorStopsCommand(obeyed)
      PROVE  Told'
    BY <1>29, Interrupting DEF ExecutorStopsCommand
<1>30. ASSUME NEW how \in {"ok", "fail"}, NEW text \in {"empty", "other"}, LineEnds(how, text)
      PROVE  Told'
    BY <1>30, Ending DEF LineEnds
<1>31. QED
    BY <1>1, <1>2, <1>3, <1>4, <1>5, <1>6, <1>7, <1>8, <1>9, <1>10, <1>11,
       <1>12, <1>13, <1>14, <1>15, <1>16, <1>17, <1>18, <1>19, <1>20, <1>21,
       <1>22, <1>23, <1>24, <1>25, <1>26, <1>27, <1>28, <1>29, <1>30
       DEF Next, HandlerStep, ExecutorStep, Threads

LEMMA StepKeepsInStep ==
    ASSUME Data, Terminal, Alive, Asked, Told, InStep, [Next]_vars
    PROVE  InStep'
<1> USE ActionsAssumption DEF InStep, Empty, One, Answered, Data, InCommand,
        Awaiting, InLock, Before, Gone, handler, lock, told, shell, Leave,
        Inside, Distrust
<1>1. CASE Triggered \/ DisableMonitors \/ Loop
  <2>1. UNCHANGED <<index, node, typed, unread, status, eof, ended, trusted, x>>
      BY <1>1 DEF Triggered, DisableMonitors, Loop
  <2>2. \/ pc \in {"trigger", "go"} /\ pc' \in {"go", "returned", "write"}
        \/ pc = "loop" /\ (pc' = "acquire" \/ (pc' = "after" /\ ~executing))
      BY <1>1 DEF Triggered, DisableMonitors, Loop
  <2>3. pc = "loop" /\ node /\ index < trusted => executing
      BY DEF Asked
  <2>4. QED BY <2>1, <2>2, <2>3
<1>2. CASE TriggerExpires
    BY <1>2 DEF TriggerExpires
<1>3. CASE MarkExecuting
    BY <1>3 DEF MarkExecuting
<1>4. CASE WriteCommand
    BY <1>4, Typing DEF WriteCommand, Alive, Lines, Ids
<1>5. CASE HandlerAcquires
  <2>1. LockStep
      BY <1>5, Locking DEF Asked
  <2>2. QED BY <2>1 DEF LockStep
<1>6. CASE NodeChecked
    BY <1>6 DEF NodeChecked
<1>7. CASE ClosedInLock
    BY <1>7 DEF ClosedInLock
<1>8. CASE Timeout
    BY <1>8 DEF Timeout
<1>9. CASE Prompt
  <2> SUFFICES ASSUME index < trusted PROVE InStep'
      BY <1>9 DEF Prompt
  <2>1. executing /\ One /\ ~eof /\ ended[index] = status
      BY <1>9, Undisturbed DEF Prompt
  <2>2. pc' = "code" /\ typed' = <<>> /\ unread' = <<>> /\ UNCHANGED <<ended, status, eof, index>>
      BY <1>9, <2>1, Reading DEF Prompt
  <2>3. QED BY <2>1, <2>2
<1>10. CASE AskReturnCode
  <2> SUFFICES ASSUME index < trusted PROVE InStep'
      BY <1>10 DEF AskReturnCode
  <2>1. node /\ Empty /\ ~eof /\ ended[index] = status
      BY <1>10, Undisturbed DEF AskReturnCode
  <2>2. /\ pc' = "answer" /\ typed' = <<AskCode>>
        /\ UNCHANGED <<unread, ended, status, eof, index>>
      BY <1>10, <2>1, Typing DEF AskReturnCode, Lines
  <2>3. status \in {"ok", "fail"}
      BY DEF Terminal
  <2>4. QED BY <2>1, <2>2, <2>3
<1>11. CASE ErrorInfo
  <2> SUFFICES ASSUME index < trusted PROVE InStep'
      BY <1>11 DEF ErrorInfo
  <2>1. One /\ ~eof
      BY <1>11, Undisturbed DEF ErrorInfo
  <2>2. pc' = "after" /\ typed' = <<>> /\ unread' = <<>> /\ ~eof'
      BY <1>11, <2>1, Reading DEF ErrorInfo, Report
  <2>3. QED BY <2>2
<1>12. CASE ReturnCodeRaises
    BY <1>12 DEF ReturnCodeRaises
<1>13. CASE CancelClosed
    BY <1>13 DEF CancelClosed
<1>14. CASE EndOfFile
    BY <1>14 DEF EndOfFile
<1>15. CASE HandlerShutdown
  <2>1. ~node'
      BY <1>15 DEF HandlerShutdown, CloseShell, Alive
  <2>2. QED BY <2>1
<1>16. CASE After
  <2>1. pc' = "tail" /\ trusted' = trusted /\ x' = x /\ pc = "after"
      BY <1>16 DEF After
  <2>2. ~node' \/ (index' = index + 1 /\ UNCHANGED <<node, typed, unread, eof>>)
      BY <1>16 DEF After, CloseShell
  <2>3. CASE node' /\ index' < trusted' /\ x' # "stopping"
    <3>1. index < trusted
        BY <2>1, <2>2, <2>3
    <3>2. Empty /\ ~eof
        BY <2>1, <2>2, <2>3, <3>1
    <3>3. typed' = <<>> /\ unread' = <<>> /\ ~eof'
        BY <2>2, <2>3, <3>2
    <3>4. QED BY <2>1, <3>3
  <2>4. QED BY <2>3
<1>17. CASE Tail_
    BY <1>17 DEF Tail_
<1>18. CASE ExecutorStarts
  <2>1. /\ pc = "new" /\ pc' \in {"new", "trigger"} /\ x = "idle"
        /\ UNCHANGED <<index, trusted, node, typed, unread, eof>>
      BY <1>18 DEF ExecutorStarts, Alive
  <2>2. QED BY <2>1
<1>19. CASE WaitEnds \/ Join \/ LoadgenEnds \/ UserInterrupts
    BY <1>19 DEF WaitEnds, Join, LoadgenEnds, UserInterrupts
<1>20. CASE ExecutorAcquires
  <2>1. LockStep
      BY <1>20, Locking DEF Asked
  <2>2. QED BY <2>1 DEF LockStep
<1>21. CASE ExecutorReleases
    BY <1>21 DEF ExecutorReleases, CloseShell
<1>22. CASE ShellDies
    BY <1>22 DEF ShellDies
<1>23. CASE UNCHANGED vars
    BY <1>23 DEF vars
<1>24. ASSUME NEW t \in Threads, Enter(t)
      PROVE  InStep'
  <2>1. LockStep
      BY <1>24, Locking DEF Asked
  <2>2. QED BY <2>1 DEF LockStep
<1>25. ASSUME NEW shown \in BOOLEAN, ReturnCode(shown)
      PROVE  InStep'
  <2> SUFFICES ASSUME index < trusted PROVE InStep'
      BY <1>25 DEF ReturnCode
  <2>0. index \in Ids
      BY <1>25 DEF ReturnCode, Ids
  <2>1. One /\ ~eof /\ Answered /\ ended[index] \in {"ok", "fail"}
      BY <1>25, <2>0, Undisturbed DEF ReturnCode
  <2>2. unread' = <<>> /\ eof' = eof /\ UNCHANGED <<ended, index>>
      BY <1>25, <2>1 DEF ReturnCode, Terminal
  <2>3. CASE pc' = "after"
      BY <1>25, <2>1, <2>2, <2>3 DEF ReturnCode, Report
  <2>4. CASE pc' # "after"
    <3>1. pc' = "error" /\ typed' = <<AskError>> /\ Head(unread) \in {"EL:n", "other"}
        BY <1>25, <2>1, <2>4 DEF ReturnCode, Report
    <3>2. ended[index] = "fail"
        BY <2>1, <3>1
    <3>3. QED BY <2>1, <2>2, <3>1, <3>2
  <2>5. QED BY <2>3, <2>4
<1>26. ASSUME NEW late \in BOOLEAN, NoOrder(late)
      PROVE  InStep'
    BY <1>26 DEF NoOrder, Continue
<1>27. ASSUME NEW late \in BOOLEAN, CancelEnds(late)
      PROVE  InStep'
    BY <1>27 DEF CancelEnds, Continue, Asked
<1>28. ASSUME NEW obeyed \in BOOLEAN, CancelAction(obeyed)
      PROVE  InStep'
    BY <1>28 DEF CancelAction
<1>29. ASSUME NEW obeyed \in BOOLEAN, ExecutorStopsCommand(obeyed)
      PROVE  InStep'
    BY <1>29 DEF ExecutorStopsCommand
<1>30. ASSUME NEW how \in {"ok", "fail"}, NEW text \in {"empty", "other"}, LineEnds(how, text)
      PROVE  InStep'
  <2> SUFFICES ASSUME index < trusted, x # "stopping" PROVE InStep'
      BY <1>30 DEF LineEnds
  <2>1. /\ node /\ typed # <<>> /\ typed' = Tail(typed)
        /\ UNCHANGED <<pc, index, eof>>
      BY <1>30 DEF LineEnds
  <2>2. CASE pc \in Awaiting
    <3>1. typed = <<index>> /\ unread = <<>> /\ ~eof /\ index \in Ids
        BY <2>1, <2>2 DEF Ids
    <3>2. /\ ended' = [ended EXCEPT ![index] = how] /\ status' = how
          /\ unread' = Append(unread, text) /\ typed' = <<>>
        BY <1>30, <3>1 DEF LineEnds
    <3>3. One' /\ ~eof' /\ ended'[index'] = status'
        BY <2>1, <3>1, <3>2
    <3>4. QED BY <2>1, <2>2, <3>3
  <2>3. CASE pc = "answer"
    <3>1. /\ typed = <<AskCode>> /\ unread = <<>> /\ ~eof /\ ended[index] = status
          /\ AskCode \notin Ids /\ AskCode = 0
        BY <2>1, <2>3 DEF AskCode, Ids
    <3>2. /\ UNCHANGED ended /\ typed' = <<>>
          /\ unread' = <<IF status = "ok" THEN "EL:0" ELSE "EL:n">>
      <4>1. Head(typed) = AskCode /\ Tail(typed) = <<>>
          BY <3>1
      <4>2. CASE status = "ok"
        <5>1. unread' = Append(unread, "EL:0") /\ UNCHANGED ended /\ typed' = Tail(typed)
            BY <1>30, <3>1, <4>1, <4>2 DEF LineEnds, AskError, Newline
        <5>2. QED BY <3>1, <4>1, <4>2, <5>1
      <4>3. CASE status # "ok"
        <5>1. unread' = Append(unread, "EL:n") /\ UNCHANGED ended /\ typed' = Tail(typed)
            BY <1>30, <3>1, <4>1, <4>3 DEF LineEnds, AskError, Newline
        <5>2. QED BY <3>1, <4>1, <4>3, <5>1
      <4>4. QED BY <4>2, <4>3
    <3>3. One' /\ ~eof' /\ Answered'
        BY <2>1, <3>1, <3>2
    <3>4. QED BY <2>1, <2>3, <3>2, <3>3
  <2>4. CASE pc = "error"
    <3>1. typed = <<AskError>> /\ unread = <<>> /\ ~eof /\ AskError \notin Ids
        BY <2>1, <2>4 DEF AskError, Ids
    <3>2. UNCHANGED ended /\ typed' = <<>> /\ Len(unread') = 1
        BY <1>30, <3>1, Ending DEF LineEnds
    <3>3. QED BY <2>1, <2>4, <3>1, <3>2
  <2>5. CASE pc \notin Awaiting \cup {"answer", "error"}
      BY <2>1, <2>5
  <2>6. QED BY <2>2, <2>3, <2>4, <2>5
<1>31. QED
    BY <1>1, <1>2, <1>3, <1>4, <1>5, <1>6, <1>7, <1>8, <1>9, <1>10, <1>11,
       <1>12, <1>13, <1>14, <1>15, <1>16, <1>17, <1>18, <1>19, <1>20, <1>21,
       <1>22, <1>23, <1>24, <1>25, <1>26, <1>27, <1>28, <1>29, <1>30
       DEF Next, HandlerStep, ExecutorStep, Threads

LEMMA StepKeepsHonest ==
    ASSUME Data, Terminal, Asked, Told, InStep, HonestResult, [Next]_vars
    PROVE  HonestResult'
<1> USE ActionsAssumption DEF HonestResult, Data, InCommand, Awaiting, InLock,
        Before, Gone, handler, lock, told, shell, Leave, Inside, Distrust, Ids
<1>1. CASE Triggered \/ DisableMonitors \/ Loop
    BY <1>1 DEF Triggered, DisableMonitors, Loop
<1>2. CASE TriggerExpires
    BY <1>2 DEF TriggerExpires
<1>3. CASE MarkExecuting
    BY <1>3 DEF MarkExecuting
<1>4. CASE WriteCommand
    BY <1>4 DEF WriteCommand
<1>5. CASE HandlerAcquires
  <2> SUFFICES ASSUME NEW i \in Ids, i < trusted', results'[i] # "none"
               PROVE  ended'[i] = IF results'[i] = "SUCCESS" THEN "ok" ELSE "fail"
      OBVIOUS
  <2>1. LockStep
      BY <1>5, Locking DEF Asked
  <2>2. i < trusted /\ results' = results /\ ended' = ended
      BY <2>1 DEF LockStep
  <2>3. QED BY <2>2
<1>6. CASE NodeChecked
    BY <1>6 DEF NodeChecked
<1>7. CASE ClosedInLock
    BY <1>7 DEF ClosedInLock
<1>8. CASE Timeout
    BY <1>8 DEF Timeout
<1>9. CASE Prompt
    BY <1>9 DEF Prompt
<1>10. CASE AskReturnCode
  <2> SUFFICES ASSUME index < trusted PROVE HonestResult'
      BY <1>10 DEF AskReturnCode, Report
  <2>1. node
      BY <1>10, Undisturbed DEF AskReturnCode
  <2>2. QED BY <1>10, <2>1 DEF AskReturnCode
<1>11. CASE ErrorInfo
  <2>1. index < trusted => ended[index] = "fail"
      BY <1>11, Undisturbed DEF ErrorInfo
  <2>2. QED BY <1>11, <2>1 DEF ErrorInfo, Report
<1>12. CASE ReturnCodeRaises
    BY <1>12 DEF ReturnCodeRaises
<1>13. CASE CancelClosed
    BY <1>13 DEF CancelClosed
<1>14. CASE EndOfFile
    BY <1>14 DEF EndOfFile
<1>15. CASE HandlerShutdown
    BY <1>15 DEF HandlerShutdown
<1>16. CASE After
    BY <1>16 DEF After
<1>17. CASE Tail_
    BY <1>17 DEF Tail_
<1>18. CASE ExecutorStarts
    BY <1>18 DEF ExecutorStarts
<1>19. CASE WaitEnds \/ Join \/ LoadgenEnds \/ UserInterrupts
    BY <1>19 DEF WaitEnds, Join, LoadgenEnds, UserInterrupts
<1>20. CASE ExecutorAcquires
  <2> SUFFICES ASSUME NEW i \in Ids, i < trusted', results'[i] # "none"
               PROVE  ended'[i] = IF results'[i] = "SUCCESS" THEN "ok" ELSE "fail"
      OBVIOUS
  <2>1. LockStep
      BY <1>20, Locking DEF Asked
  <2>2. i < trusted /\ results' = results /\ ended' = ended
      BY <2>1 DEF LockStep
  <2>3. QED BY <2>2
<1>21. CASE ExecutorReleases
    BY <1>21 DEF ExecutorReleases
<1>22. CASE ShellDies
    BY <1>22 DEF ShellDies
<1>23. CASE UNCHANGED vars
    BY <1>23 DEF vars
<1>24. ASSUME NEW t \in Threads, Enter(t)
      PROVE  HonestResult'
  <2> SUFFICES ASSUME NEW i \in Ids, i < trusted', results'[i] # "none"
               PROVE  ended'[i] = IF results'[i] = "SUCCESS" THEN "ok" ELSE "fail"
      OBVIOUS
  <2>1. LockStep
      BY <1>24, Locking DEF Asked
  <2>2. i < trusted /\ results' = results /\ ended' = ended
      BY <2>1 DEF LockStep
  <2>3. QED BY <2>2
<1>25. ASSUME NEW shown \in BOOLEAN, ReturnCode(shown)
      PROVE  HonestResult'
  <2>1. index < trusted =>
            (ended[index] = "ok" <=> Head(unread) \notin {"EL:n", "other"}) /\ ended[index] # "no"
      BY <1>25, Undisturbed DEF ReturnCode, One, Answered, Terminal
  <2>2. UNCHANGED <<index, trusted, ended>>
      BY <1>25 DEF ReturnCode
  <2>3. \/ results' = results
        \/ results' = [results EXCEPT ![index] =
                          IF Head(unread) \in {"EL:n", "other"} THEN "FAILED" ELSE "SUCCESS"]
      BY <1>25 DEF ReturnCode, Report
  <2>4. QED BY <2>1, <2>2, <2>3
<1>26. ASSUME NEW late \in BOOLEAN, NoOrder(late)
      PROVE  HonestResult'
    BY <1>26 DEF NoOrder, Continue
<1>27. ASSUME NEW late \in BOOLEAN, CancelEnds(late)
      PROVE  HonestResult'
    BY <1>27 DEF CancelEnds, Continue
<1>28. ASSUME NEW obeyed \in BOOLEAN, CancelAction(obeyed)
      PROVE  HonestResult'
  <2> SUFFICES ASSUME NEW i \in Ids, i < trusted', results'[i] # "none"
               PROVE  ended'[i] = IF results'[i] = "SUCCESS" THEN "ok" ELSE "fail"
      OBVIOUS
  <2>1. i < trusted /\ UNCHANGED <<results, ended>>
      BY <1>28 DEF CancelAction
  <2>2. QED BY <2>1
<1>29. ASSUME NEW obeyed \in BOOLEAN, ExecutorStopsCommand(obeyed)
      PROVE  HonestResult'
    BY <1>29 DEF ExecutorStopsCommand
<1>30. ASSUME NEW how \in {"ok", "fail"}, NEW text \in {"empty", "other"}, LineEnds(how, text)
      PROVE  HonestResult'
  <2> SUFFICES ASSUME NEW i \in Ids, i < trusted', results'[i] # "none"
               PROVE  ended'[i] = IF results'[i] = "SUCCESS" THEN "ok" ELSE "fail"
      OBVIOUS
  <2>1. UNCHANGED <<trusted, results>>
      BY <1>30 DEF LineEnds
  <2>2. CASE ended'[i] = ended[i]
      BY <2>1, <2>2
  <2>3. CASE ended'[i] # ended[i]
    <3>1. typed[1] = i /\ 1 \in 1 .. Len(typed)
        BY <1>30, <2>3 DEF LineEnds, Terminal
    <3>2. results[i] = "none" \/ trusted <= i
        BY <3>1 DEF Told
    <3>3. QED BY <2>1, <3>2
  <2>4. QED BY <2>2, <2>3
<1>31. QED
    BY <1>1, <1>2, <1>3, <1>4, <1>5, <1>6, <1>7, <1>8, <1>9, <1>10, <1>11,
       <1>12, <1>13, <1>14, <1>15, <1>16, <1>17, <1>18, <1>19, <1>20, <1>21,
       <1>22, <1>23, <1>24, <1>25, <1>26, <1>27, <1>28, <1>29, <1>30
       DEF Next, HandlerStep, ExecutorStep, Threads

----------------------------------------------------------------------------
LEMMA IndInvHolds == Spec => []IndInv
<1>1. Init => IndInv
  <2> SUFFICES ASSUME Init PROVE IndInv
      OBVIOUS
  <2>1. Data
    <3>1. cfg.ready \in BOOLEAN
        BY DEF Init, Configs
    <3>2. /\ index = 1 /\ 1 <= Actions
          /\ trusted = Actions + 1 /\ trusted \in Nat \ {0}
        BY ActionsAssumption DEF Init
    <3>3. /\ results \in [Ids -> {"none", "SUCCESS", "FAILED"}]
          /\ ended \in [Ids -> {"no", "ok", "fail"}]
        BY DEF Init
    <3>4. node \in BOOLEAN
        BY <3>1 DEF Init
    <3>5. /\ executing \in BOOLEAN /\ running \in BOOLEAN /\ watching \in BOOLEAN
          /\ eof \in BOOLEAN
        BY DEF Init
    <3>6. QED BY <3>2, <3>3, <3>4, <3>5 DEF Data
  <2>2. HonestResult
      BY DEF Init, HonestResult
  <2>3. Terminal /\ Alive /\ Told /\ InStep /\ Watched
      BY ActionsAssumption
         DEF Init, Terminal, Alive, Told, InStep, Empty, Watched, InCommand,
             Awaiting, InLock, Before, Ids, Lines, Texts
  <2>4. Asked
      BY DEF Init, Mutex!Init, Asked, Threads, InLock, Awaiting
  <2>5. QED BY <2>1, <2>2, <2>3, <2>4 DEF IndInv
<1>2. IndInv /\ [Next]_vars => IndInv'
    BY StepKeepsData, StepKeepsTerminal, StepKeepsAlive, StepKeepsAsked,
       StepKeepsWatched, StepKeepsTold, StepKeepsInStep, StepKeepsHonest DEF IndInv
<1>3. QED BY <1>1, <1>2, PTL DEF Spec

(* For any number of actions: what is reported of an action is how its     *)
(* command ended by itself, up to the first action that was cancelled or   *)
(* during which executor and handler were in the lock together.            *)
THEOREM ResultsAreHonest == Spec => []HonestResult
<1>1. IndInv => HonestResult
    BY DEF IndInv
<1>2. QED BY <1>1, IndInvHolds, PTL

(* Between two actions the traffic is watched, however the last one ended. *)
THEOREM TrafficIsWatched == Spec => []WatchingBetweenActions
<1>1. IndInv => WatchingBetweenActions
    BY DEF IndInv, Alive, Watched, WatchingBetweenActions, Gone
<1>2. QED BY <1>1, IndInvHolds, PTL
=============================================================================
