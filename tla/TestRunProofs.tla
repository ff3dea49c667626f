--------------------------- MODULE TestRunProofs ---------------------------
(***************************************************************************)
(* Proofs about an execution of the test tool, for any suite, any phases   *)
(* and any number of orders and failures.                                  *)
(***************************************************************************)
EXTENDS TestRun, TLAPS

Cases == [case : DOMAIN Suite, mandatory : BOOLEAN,
          status : {"not_executed", "running", "finished", "not_finished", "skipped"},
          failed : BOOLEAN, repeat : BOOLEAN, report_not_valid : BOOLEAN,
          retries : Int, reexecution : BOOLEAN, invalid : BOOLEAN]

Executing == {"phases", "step", "wrap"}

Data ==
    /\ tests \in Seq(Cases)
    /\ cur \in 0 .. Len(tests)
    /\ pc \in Executing \cup {"initialize"} => cur \in DOMAIN tests
    /\ exit_rtc \in BOOLEAN /\ stop \in BOOLEAN

(* Nothing runs but the current case, and that between its initialize and  *)
(* its finish.                                                             *)
OneRuns ==
    \A i \in DOMAIN tests :
        tests[i].status = "running" => i = cur /\ pc \in Executing

(* A stop that was ordered is in the flag of the loop; the window in which *)
(* initialize may reset the flag is not entered with one.                  *)
Flagged ==
    /\ stop => exit_rtc
    /\ pc = "initialize" => ~stop

IndInv == Data /\ OneRuns /\ Flagged

(* What a step may do to the verdict of a case t: nothing, or fail it for  *)
(* good.                                                                   *)
SameVerdict(t, u) ==
    u.case = t.case /\ u.report_not_valid = t.report_not_valid /\ u.invalid = t.invalid

OnlyWorse(t, u) ==
    SameVerdict(t, u) \/ (u.case = t.case /\ u.report_not_valid /\ u.invalid)

----------------------------------------------------------------------------
(* The operators on a test case.                                           *)

LEMMA NewCaseType ==
    ASSUME NEW i \in DOMAIN Suite
    PROVE  /\ NewCase(i) \in Cases /\ NewCase(i).status = "not_executed"
           /\ NewCase(i).case = i
           /\ ~NewCase(i).report_not_valid /\ ~NewCase(i).invalid
<1>1. Suite[i].mandatory \in BOOLEAN /\ Suite[i].retries \in Int
    BY SuiteAssumption
<1>2. QED BY <1>1 DEF NewCase, Cases

LEMMA CloneType ==
    ASSUME NEW t \in Cases
    PROVE  /\ Clone(t) \in Cases /\ Clone(t).status = "not_executed"
           /\ Clone(t).case = t.case
           /\ ~Clone(t).report_not_valid /\ ~Clone(t).invalid
<1>1. t.case \in DOMAIN Suite /\ t.retries \in Int
    BY DEF Cases
<1>2. /\ NewCase(t.case) \in Cases /\ NewCase(t.case).status = "not_executed"
      /\ NewCase(t.case).case = t.case
      /\ ~NewCase(t.case).report_not_valid /\ ~NewCase(t.case).invalid
    BY <1>1, NewCaseType
<1>3. ASSUME NEW c \in Cases, NEW n \in Int
      PROVE  /\ [c EXCEPT !.retries = n, !.reexecution = TRUE] \in Cases
             /\ [c EXCEPT !.retries = n, !.reexecution = TRUE].status = c.status
             /\ SameVerdict(c, [c EXCEPT !.retries = n, !.reexecution = TRUE])
    BY <1>3 DEF Cases, SameVerdict
<1>4. t.retries - 1 \in Int
    BY <1>1
<1>5. QED BY <1>2, <1>3, <1>4 DEF Clone, SameVerdict

LEMMA UpdateStatusType ==
    ASSUME NEW t \in Cases, NEW status, NEW message \in BOOLEAN,
           NEW repeat \in BOOLEAN
    PROVE  /\ UpdateStatus(t, status, message, repeat) \in Cases
           /\ status # "running" =>
                  (UpdateStatus(t, status, message, repeat).status = "running" =>
                       t.status = "running")
           /\ status \in {"finished", "not_finished"} =>
                  UpdateStatus(t, status, message, repeat).status # "running"
           /\ SameVerdict(t, UpdateStatus(t, status, message, repeat))
<1>1. CASE t.status = "not_executed" /\ status \in {"running", "skipped"}
    BY <1>1 DEF UpdateStatus, Cases, SameVerdict
<1>2. CASE t.status = "running" /\ status \in {"finished", "not_finished"}
    BY <1>2 DEF UpdateStatus, Cases, SameVerdict
<1>3. CASE /\ ~(t.status = "not_executed" /\ status \in {"running", "skipped"})
           /\ ~(t.status = "running" /\ status \in {"finished", "not_finished"})
  <2>1. UpdateStatus(t, status, message, repeat) = t
      BY <1>3 DEF UpdateStatus
  <2>2. QED BY <1>3, <2>1 DEF SameVerdict
<1>4. QED BY <1>1, <1>2, <1>3

LEMMA FailedCaseType ==
    ASSUME NEW t \in Cases, NEW on
    PROVE  /\ FailedCase(t, on) \in Cases /\ FailedCase(t, on).status = t.status
           /\ OnlyWorse(t, FailedCase(t, on))
BY DEF FailedCase, UpdateVerdict, Cases, SameVerdict, OnlyWorse

----------------------------------------------------------------------------
(* The operators on the suite.                                             *)

LEMMA SetCaseKeeps ==
    ASSUME Data, cur \in DOMAIN tests, NEW t \in Cases, SetCase(t)
    PROVE  /\ tests' \in Seq(Cases) /\ Len(tests') = Len(tests)
           /\ DOMAIN tests' = DOMAIN tests /\ tests'[cur] = t
           /\ \A i \in DOMAIN tests : i # cur => tests'[i] = tests[i]
BY DEF Data, SetCase

LEMMA InsertAtType ==
    ASSUME NEW S, NEW s \in Seq(S), NEW e \in S, NEW i \in Nat,
           i \in 1 .. Len(s) + 1
    PROVE  InsertAt(s, i, e) \in Seq(S) /\ Len(InsertAt(s, i, e)) = Len(s) + 1
<1>1. /\ SubSeq(s, 1, i - 1) \in Seq(S) /\ Len(SubSeq(s, 1, i - 1)) = i - 1
      /\ SubSeq(s, i, Len(s)) \in Seq(S)
      /\ Len(SubSeq(s, i, Len(s))) = Len(s) - i + 1
    OBVIOUS
<1>2. <<e>> \in Seq(S) /\ Len(<<e>>) = 1
    OBVIOUS
<1>3. ASSUME NEW a \in Seq(S), NEW b \in Seq(S)
      PROVE  a \o b \in Seq(S) /\ Len(a \o b) = Len(a) + Len(b)
    OBVIOUS
<1> DEFINE head == SubSeq(s, 1, i - 1) \o <<e>>
<1>4. head \in Seq(S) /\ Len(head) = i - 1 + 1
    BY <1>1, <1>2, <1>3
<1>5. InsertAt(s, i, e) = head \o SubSeq(s, i, Len(s))
    BY DEF InsertAt
<1> HIDE DEF head
<1>6. /\ InsertAt(s, i, e) \in Seq(S)
      /\ Len(InsertAt(s, i, e)) = Len(head) + Len(SubSeq(s, i, Len(s)))
    BY <1>1, <1>3, <1>4, <1>5, Zenon
<1>7. Len(s) \in Nat
    OBVIOUS
<1>8. QED BY <1>1, <1>4, <1>6, <1>7

LEMMA InsertAtElements ==
    ASSUME NEW S, NEW s \in Seq(S), NEW e \in S, NEW i \in Nat,
           i \in 1 .. Len(s) + 1, NEW k \in 1 .. Len(s) + 1
    PROVE  InsertAt(s, i, e)[k] =
               IF k < i THEN s[k] ELSE IF k = i THEN e ELSE s[k - 1]
<1> DEFINE front == SubSeq(s, 1, i - 1)
           back == SubSeq(s, i, Len(s))
           head == front \o <<e>>
           whole == head \o back
<1>1. /\ front \in Seq(S) /\ Len(front) = i - 1
      /\ back \in Seq(S) /\ Len(back) = Len(s) - i + 1
      /\ \A j \in 1 .. i - 1 : front[j] = s[j]
      /\ \A j \in 1 .. Len(s) - i + 1 : back[j] = s[i + j - 1]
    OBVIOUS
<1>2. InsertAt(s, i, e) = whole
    BY DEF InsertAt
<1> HIDE DEF front, back
<1>3. /\ head \in Seq(S) /\ Len(head) = i
      /\ \A j \in 1 .. i - 1 : head[j] = front[j]
      /\ head[i] = e
    BY <1>1
<1> HIDE DEF head
<1>4. \A j \in 1 .. Len(s) + 1 :
          whole[j] = IF j <= i THEN head[j] ELSE back[j - i]
    BY <1>1, <1>3
<1> HIDE DEF whole
<1>5. CASE k < i
  <2>1. k \in 1 .. i - 1 /\ k <= i
      BY <1>5
  <2>2. whole[k] = head[k]
      BY <1>4, <2>1
  <2>3. head[k] = front[k] /\ front[k] = s[k]
      BY <1>1, <1>3, <2>1
  <2>4. QED BY <1>2, <1>5, <2>2, <2>3
<1>6. CASE k = i
  <2>1. whole[k] = head[k]
      BY <1>4, <1>6
  <2>2. QED BY <1>2, <1>3, <1>6, <2>1
<1>7. CASE k > i
  <2>1. PICK j \in Int : j = k - i
      BY <1>7
  <2>2. j \in 1 .. Len(s) - i + 1 /\ i + j - 1 = k - 1
      BY <1>7, <2>1
  <2>3. back[j] = s[i + j - 1]
      BY <1>1, <2>2
  <2>4. whole[k] = back[k - i]
      BY <1>4, <1>7
  <2>5. InsertAt(s, i, e)[k] = s[k - 1]
      BY <1>2, <2>1, <2>2, <2>3, <2>4
  <2>6. QED BY <1>7, <2>5
<1>8. QED BY <1>5, <1>6, <1>7

LEMMA SeqDomain ==
    ASSUME NEW S, NEW s \in Seq(S)
    PROVE  DOMAIN s = 1 .. Len(s) /\ Len(s) \in Nat
OBVIOUS

(* a function on 1 .. n is a sequence *)
LEMMA SeqOfFunction ==
    ASSUME NEW S, NEW n \in Nat, NEW s \in [1 .. n -> S]
    PROVE  s \in Seq(S) /\ Len(s) = n
OBVIOUS

(* finish(), and the repetition: nothing runs any more, nothing runs yet. *)
LEMMA WrapUpStopsAll ==
    ASSUME IndInv, WrapUp
    PROVE  /\ tests' \in Seq(Cases) /\ Len(tests') >= Len(tests)
           /\ \A i \in DOMAIN tests' : tests'[i].status # "running"
<1> DEFINE ts == Finished(tests)
           Still == {t \in Cases : t.status # "running"}
<1>1. cur \in DOMAIN tests /\ cur \in Nat /\ tests \in Seq(Cases)
    BY DEF IndInv, Data, WrapUp, Executing
<1>2. ts \in Seq(Still) /\ Len(ts) = Len(tests)
  <2> DEFINE done == UpdateStatus(tests[cur], "not_finished", TRUE, FALSE)
  <2>1. done \in Still
    <3>1. tests[cur] \in Cases
        BY <1>1
    <3>2. QED BY <3>1, UpdateStatusType
  <2>2. \A i \in DOMAIN tests : i # cur => tests[i] \in Still
      BY <1>1 DEF IndInv, OneRuns
  <2> HIDE DEF Still
  <2>3. CASE cur > 0 /\ tests[cur].status = "running"
    <3>1. ts = [tests EXCEPT ![cur] = done]
        BY <2>3 DEF Finished
    <3> HIDE DEF ts, done
    <3>2. DOMAIN tests = 1 .. Len(tests) /\ Len(tests) \in Nat
        BY <1>1
    <3>3. \A i \in DOMAIN tests : ts[i] \in Still
        BY <1>1, <2>1, <2>2, <3>1
    <3>4. ts \in [1 .. Len(tests) -> Still]
        BY <3>1, <3>2, <3>3
    <3>5. QED BY <3>2, <3>4
  <2>4. CASE ~(cur > 0 /\ tests[cur].status = "running")
    <3>1. ts = tests
        BY <2>4 DEF Finished
    <3>2. \A i \in DOMAIN tests : tests[i] \in Still
        BY <1>1, <2>2, <2>4 DEF Still
    <3> HIDE DEF ts
    <3>3. QED BY <1>1, <3>1, <3>2
  <2>5. QED BY <2>3, <2>4
<1>3. tests' \in Seq(Still) /\ Len(tests') >= Len(tests)
  <2> HIDE DEF ts
  <2>1. CASE ShallRepeat(ts[cur])
    <3> DEFINE mended == [ts EXCEPT ![cur].report_not_valid = FALSE]
    <3>1. tests' = InsertAt(mended, cur + 1, Clone(ts[cur]))
        BY <2>1 DEF WrapUp, RepeatTestCase, ts
    <3>2. ts[cur] \in Still /\ cur \in DOMAIN ts
        BY <1>1, <1>2
    <3>3. [ts[cur] EXCEPT !.report_not_valid = FALSE] \in Still
        BY <3>2 DEF Cases
    <3>4. mended \in Seq(Still) /\ Len(mended) = Len(ts)
      <4>1. mended = [ts EXCEPT ![cur] = [ts[cur] EXCEPT !.report_not_valid = FALSE]]
          BY <3>2
      <4> HIDE DEF mended, Still
      <4>2. QED BY <1>2, <3>2, <3>3, <4>1
    <3>5. Clone(ts[cur]) \in Still
        BY <3>2, CloneType
    <3>6. cur + 1 \in 1 .. Len(mended) + 1 /\ cur + 1 \in Nat
        BY <1>1, <1>2, <3>4
    <3> HIDE DEF mended, Still
    <3>7. tests' \in Seq(Still) /\ Len(tests') = Len(mended) + 1
        BY <3>1, <3>4, <3>5, <3>6, InsertAtType
    <3>8. QED BY <1>1, <1>2, <3>4, <3>7
  <2>2. CASE ~ShallRepeat(ts[cur])
      BY <1>1, <1>2, <2>2 DEF WrapUp, ts
  <2>3. QED BY <2>1, <2>2
<1>4. \A i \in DOMAIN tests' : tests'[i] \in Still
    BY <1>3
<1>5. tests' \in Seq(Cases)
    BY <1>3, <1>4
<1>6. QED BY <1>3, <1>4, <1>5

(* set test_execution_status: no case starts or ends by it. *)
LEMMA ForceStatusKeeps ==
    ASSUME Data, NEW status
    PROVE  /\ ForceStatus(tests, status) \in Seq(Cases)
           /\ Len(ForceStatus(tests, status)) = Len(tests)
           /\ DOMAIN ForceStatus(tests, status) = DOMAIN tests
           /\ \A i \in DOMAIN tests :
                  /\ ForceStatus(tests, status)[i].status = tests[i].status
                  /\ ForceStatus(tests, status)[i].case = tests[i].case
                  /\ ForceStatus(tests, status)[i].failed = tests[i].failed
<1> DEFINE fs == ForceStatus(tests, status)
<1>1. DOMAIN tests = 1 .. Len(tests) /\ Len(tests) \in Nat
    BY DEF Data
<1>2. DOMAIN fs = DOMAIN tests
    BY DEF ForceStatus
<1>3. ASSUME NEW i \in DOMAIN tests
      PROVE  /\ fs[i] \in Cases /\ fs[i].status = tests[i].status
             /\ fs[i].case = tests[i].case /\ fs[i].failed = tests[i].failed
  <2>1. tests[i] \in Cases
      BY <1>3 DEF Data
  <2>2. [tests[i] EXCEPT !.report_not_valid = (status = "FAILED")] \in Cases
      BY <2>1 DEF Cases
  <2>3. fs[i] = IF tests[i].status \in {"finished", "not_finished"}
                THEN [tests[i] EXCEPT !.report_not_valid = (status = "FAILED")]
                ELSE tests[i]
      BY DEF ForceStatus
  <2> HIDE DEF fs
  <2>4. QED BY <2>1, <2>2, <2>3 DEF Cases
<1>4. fs \in [1 .. Len(tests) -> Cases]
  <2>1. fs = [i \in DOMAIN tests |-> fs[i]]
      BY DEF ForceStatus
  <2> HIDE DEF fs
  <2>2. QED BY <1>1, <1>2, <1>3, <2>1
<1> HIDE DEF fs
<1>5. fs \in Seq(Cases) /\ Len(fs) = Len(tests)
    BY <1>1, <1>4
<1>6. QED BY <1>2, <1>3, <1>5 DEF fs

----------------------------------------------------------------------------
(* What the steps of a phase may do to the case and to the flag.           *)
CaseStep ==
    /\ UNCHANGED <<cur, stop, overruled>>
    /\ exit_rtc' \in BOOLEAN /\ (exit_rtc => exit_rtc')
    /\ pc' \in Executing
    /\ \/ tests' = tests
       \/ \E t \in Cases : /\ SetCase(t)
                           /\ t.status = "running" => tests[cur].status = "running"
                           /\ OnlyWorse(tests[cur], t)

LEMMA RaiseStep ==
    ASSUME Data, cur \in DOMAIN tests, NEW t \in Cases, NEW exception,
           t.status = tests[cur].status, OnlyWorse(tests[cur], t), Raise(t, exception),
           UNCHANGED <<cur, stop, overruled>>
    PROVE  CaseStep
<1>1. PICK message \in BOOLEAN, repeat \in BOOLEAN :
          SetCase(UpdateStatus(t, "not_finished", message, repeat))
  <2>1. CASE exception = "run_error"
      BY <2>1 DEF Raise
  <2>2. CASE exception = "BatError"
      BY <2>2 DEF Raise
  <2>3. CASE exception \notin {"run_error", "BatError"}
      BY <2>3 DEF Raise
  <2>4. QED BY <2>1, <2>2, <2>3
<1>2. /\ UpdateStatus(t, "not_finished", message, repeat) \in Cases
      /\ UpdateStatus(t, "not_finished", message, repeat).status # "running"
      /\ OnlyWorse(tests[cur], UpdateStatus(t, "not_finished", message, repeat))
  <2>1. SameVerdict(t, UpdateStatus(t, "not_finished", message, repeat))
      BY UpdateStatusType
  <2>2. QED BY <2>1, UpdateStatusType DEF OnlyWorse, SameVerdict
<1>3. exit_rtc' \in BOOLEAN /\ (exit_rtc => exit_rtc')
    BY DEF Raise, Data
<1>4. pc' \in Executing
    BY DEF Raise, Goto, Executing
<1>5. QED BY <1>1, <1>2, <1>3, <1>4 DEF CaseStep

LEMMA StepFailedStep ==
    ASSUME Data, cur \in DOMAIN tests, NEW on, StepFailed(on),
           UNCHANGED <<cur, stop, overruled>>
    PROVE  CaseStep
<1>1. tests[cur] \in Cases
    BY DEF Data
<1> DEFINE t == FailedCase(tests[cur], on)
<1>2. t \in Cases /\ t.status = tests[cur].status /\ OnlyWorse(tests[cur], t)
    BY <1>1, FailedCaseType
<1>3. \/ Raise(t, "ExitRtc") \/ Raise(t, "StopTestCaseOnFail")
      \/ SetCase(t) /\ UNCHANGED flagVars /\ (NextPhase \/ Goto("step", ph, st + 1))
    BY DEF StepFailed
<1> HIDE DEF t
<1>4. CASE Raise(t, "ExitRtc") \/ Raise(t, "StopTestCaseOnFail")
    BY <1>2, <1>4, RaiseStep
<1>5. CASE SetCase(t) /\ UNCHANGED flagVars /\ (NextPhase \/ Goto("step", ph, st + 1))
    BY <1>2, <1>5 DEF CaseStep, Data, flagVars, NextPhase, Goto, Executing
<1>6. QED BY <1>3, <1>4, <1>5

Run == RunCommand \/ RunBackground \/ RunCompare \/ RunRestarts \/ RunTraffic
       \/ RunMeasure \/ RunFrameworkCheck \/ RunExecution

LEMMA RunStep ==
    ASSUME IndInv, Run \/ LackKey \/ LeavePhase \/ BeginPhase \/ EndPhases
    PROVE  CaseStep /\ pc \in Executing
<1>1. pc \in Executing /\ UNCHANGED <<cur, stop, overruled>>
    BY DEF Run, LackKey, LeavePhase, BeginPhase, EndPhases, RunCommand, RunBackground,
           RunCompare, RunRestarts, RunTraffic, RunMeasure, RunFrameworkCheck,
           RunExecution, AtStep, StepUnchanged, history, Executing
<1>2. Data /\ cur \in DOMAIN tests /\ tests[cur] \in Cases
    BY <1>1 DEF IndInv, Data
<1>3. CASE StepDone
    BY <1>1, <1>2, <1>3 DEF StepDone, CaseStep, Goto, flagVars, Executing, Data
<1>4. ASSUME NEW on, StepFailed(on) PROVE CaseStep
    BY <1>1, <1>2, <1>4, StepFailedStep
<1>5. ASSUME NEW exception, Raise(tests[cur], exception) PROVE CaseStep
    BY <1>1, <1>2, <1>5, RaiseStep DEF OnlyWorse, SameVerdict
<1>6. ASSUME NEW on, Raise(FailedCase(tests[cur], on), "Exception") PROVE CaseStep
    BY <1>1, <1>2, <1>6, RaiseStep, FailedCaseType
<1>7. ASSUME SetCase(UpdateVerdict(tests[cur], FALSE)), UNCHANGED flagVars,
             Goto("step", ph, st + 1)
      PROVE  CaseStep
  <2>1. /\ UpdateVerdict(tests[cur], FALSE) \in Cases
        /\ UpdateVerdict(tests[cur], FALSE).status = tests[cur].status
        /\ OnlyWorse(tests[cur], UpdateVerdict(tests[cur], FALSE))
      BY <1>2 DEF UpdateVerdict, Cases, OnlyWorse, SameVerdict
  <2>2. QED BY <1>1, <1>2, <1>7, <2>1 DEF CaseStep, flagVars, Goto, Executing, Data
<1>8. ASSUME NEW status \in {"finished", "not_finished"}, NEW message \in BOOLEAN,
             SetCase(UpdateStatus(tests[cur], status, message, FALSE)),
             UNCHANGED flagVars, Goto("wrap", 0, 0)
      PROVE  CaseStep
  <2>1. /\ UpdateStatus(tests[cur], status, message, FALSE) \in Cases
        /\ UpdateStatus(tests[cur], status, message, FALSE).status # "running"
        /\ OnlyWorse(tests[cur], UpdateStatus(tests[cur], status, message, FALSE))
      BY <1>2, UpdateStatusType DEF OnlyWorse
  <2>2. QED BY <1>1, <1>2, <1>8, <2>1 DEF CaseStep, flagVars, Goto, Executing, Data
<1>9. CASE RunCommand \/ RunBackground \/ RunCompare \/ RunRestarts \/ RunTraffic
           \/ RunMeasure
  <2>1. \/ StepDone \/ StepFailed(Step.on) \/ Raise(tests[cur], "run_error")
      BY <1>9 DEF RunCommand, RunBackground, RunCompare, RunRestarts, RunTraffic,
             RunMeasure
  <2>2. QED BY <1>1, <1>3, <1>4, <1>5, <2>1
<1>10. CASE RunFrameworkCheck
  <2>1. \/ Raise(tests[cur], "Exception") \/ StepFailed(Step.on)
        \/ Raise(FailedCase(tests[cur], Step.on), "Exception")
      BY <1>10 DEF RunFrameworkCheck
  <2>2. QED BY <1>1, <1>4, <1>5, <1>6, <2>1
<1>11. CASE RunExecution
  <2>1. \/ StepDone
        \/ Raise(tests[cur], "run_error") \/ Raise(tests[cur], "BatError")
        \/ /\ SetCase(UpdateVerdict(tests[cur], FALSE)) /\ UNCHANGED flagVars
           /\ Goto("step", ph, st + 1)
      BY <1>11 DEF RunExecution
  <2>2. QED BY <1>1, <1>3, <1>5, <1>7, <2>1
<1>12. CASE LackKey \/ LeavePhase
    BY <1>1, <1>2, <1>12 DEF LackKey, LeavePhase, CaseStep, NextPhase, Goto, flagVars,
           Executing, Data
<1>13. CASE BeginPhase
  <2>1. CASE exit_test_case
      BY <1>1, <1>8, <1>13, <2>1 DEF BeginPhase
  <2>2. CASE ~exit_test_case
      BY <1>1, <1>2, <1>13, <2>2 DEF BeginPhase, CaseStep, NextPhase, Goto,
             flagVars, Executing, Data
  <2>3. QED BY <2>1, <2>2
<1>14. CASE EndPhases
    BY <1>1, <1>8, <1>14 DEF EndPhases
<1>15. QED BY <1>1, <1>9, <1>10, <1>11, <1>12, <1>13, <1>14 DEF Run

(* Such a step keeps the invariant and starts no case. *)
LEMMA CaseStepKeeps ==
    ASSUME IndInv, CaseStep, pc \in Executing
    PROVE  /\ IndInv'
           /\ \A i \in DOMAIN tests :
                  tests'[i].status = "running" => tests[i].status = "running"
<1>1. Data /\ cur \in DOMAIN tests
    BY DEF IndInv, Data
<1>2. /\ tests' \in Seq(Cases) /\ Len(tests') = Len(tests)
      /\ DOMAIN tests' = DOMAIN tests
      /\ \A i \in DOMAIN tests :
             tests'[i].status = "running" => tests[i].status = "running"
  <2>1. CASE tests' = tests
      BY <1>1, <2>1 DEF Data
  <2>2. ASSUME NEW t \in Cases, SetCase(t),
               t.status = "running" => tests[cur].status = "running"
        PROVE  /\ tests' \in Seq(Cases) /\ Len(tests') = Len(tests)
               /\ DOMAIN tests' = DOMAIN tests
               /\ \A i \in DOMAIN tests :
                      tests'[i].status = "running" => tests[i].status = "running"
    <3>1. /\ tests' \in Seq(Cases) /\ Len(tests') = Len(tests)
          /\ DOMAIN tests' = DOMAIN tests
          /\ tests'[cur] = t
          /\ \A i \in DOMAIN tests : i # cur => tests'[i] = tests[i]
        BY <1>1, <2>2, SetCaseKeeps
    <3>2. QED BY <2>2, <3>1
  <2>3. QED BY <2>1, <2>2 DEF CaseStep
<1>3. QED BY <1>1, <1>2 DEF IndInv, Data, OneRuns, Flagged, CaseStep, Executing

----------------------------------------------------------------------------
Orders == Quit \/ ContinueQuit \/ ForceQuit \/ CtrlC \/ Resume \/ Answer \/ Drop
          \/ InterruptTraffic

LEMMA OrdersKeep ==
    ASSUME IndInv, Orders
    PROVE  IndInv' /\ tests' = tests
<1>1. UNCHANGED <<tests, cur, pc>>
    BY DEF Orders, Quit, ContinueQuit, ForceQuit, CtrlC, Resume, Answer, Drop,
           InterruptTraffic, OrderUnchanged, mainVars
<1>2. /\ exit_rtc' \in BOOLEAN /\ stop' \in BOOLEAN
      /\ stop' => exit_rtc'
      /\ pc = "initialize" => ~stop'
  <2>1. CASE Quit \/ ForceQuit
      BY <2>1 DEF Quit, ForceQuit, IndInv, Data, Flagged
  <2>2. CASE ContinueQuit
      BY <2>2 DEF ContinueQuit
  <2>3. CASE CtrlC \/ Resume
      BY <2>3 DEF CtrlC, Resume, flagVars, IndInv, Data, Flagged
  <2>4. CASE Answer
    <3>1. CASE UNCHANGED <<exit_rtc, exit_test_case, stop>>
        BY <3>1 DEF IndInv, Data, Flagged
    <3>2. CASE exit_rtc' = TRUE /\ stop' = (stop \/ pc # "initialize")
        BY <3>2 DEF IndInv, Data, Flagged
    <3>3. QED BY <2>4, <3>1, <3>2 DEF Answer
  <2>5. CASE Drop \/ InterruptTraffic
      BY <2>5 DEF Drop, InterruptTraffic, flagVars, history, IndInv, Data, Flagged
  <2>6. QED BY <2>1, <2>2, <2>3, <2>4, <2>5 DEF Orders
<1>3. QED BY <1>1, <1>2 DEF IndInv, Data, OneRuns, Flagged

(* The main loop around the test cases. *)
LEMMA TakeTestCaseKeeps ==
    ASSUME IndInv, TakeTestCase
    PROVE  IndInv' /\ tests' = tests
<1>1. tests' = tests /\ UNCHANGED <<exit_rtc, stop>> /\ pc = "top"
    BY DEF TakeTestCase, flagVars, history
<1>2. \A i \in DOMAIN tests : tests[i].status # "running"
    BY <1>1 DEF IndInv, OneRuns, Executing
<1>3. CASE exit_rtc \/ cur = Len(tests)
    BY <1>1, <1>2, <1>3 DEF TakeTestCase, Goto, IndInv, Data, OneRuns, Flagged,
           Executing
<1>4. CASE ~(exit_rtc \/ cur = Len(tests))
  <2>1. pc' = "initialize" /\ cur' = cur + 1 /\ ~stop
      BY <1>4 DEF TakeTestCase, Goto, IndInv, Flagged
  <2>2. /\ cur + 1 \in DOMAIN tests /\ cur + 1 \in 0 .. Len(tests)
        /\ tests \in Seq(Cases)
      BY <1>4 DEF IndInv, Data
  <2>3. QED BY <1>1, <1>2, <2>1, <2>2
            DEF IndInv, Data, OneRuns, Flagged, Executing
<1>5. QED BY <1>3, <1>4

LEMMA InitializeKeeps ==
    ASSUME IndInv, Initialize \/ Skip
    PROVE  IndInv'
<1>1. /\ pc = "initialize" /\ UNCHANGED <<cur, stop>> /\ exit_rtc' = FALSE
      /\ Data /\ OneRuns /\ Flagged
    BY DEF Initialize, Skip, ResetFlags, history, IndInv
<1>2. /\ cur \in DOMAIN tests /\ tests[cur] \in Cases /\ ~stop
    BY <1>1 DEF Data, Flagged
<1>3. \A i \in DOMAIN tests : tests[i].status # "running"
    BY <1>1 DEF OneRuns, Executing
<1>4. CASE Initialize
  <2> DEFINE t == UpdateStatus(tests[cur], "running", FALSE, FALSE)
  <2>1. t \in Cases /\ SetCase(t) /\ pc' = "phases"
      BY <1>1, <1>2, <1>4, UpdateStatusType DEF Initialize, Goto
  <2> HIDE DEF t
  <2>2. /\ tests' \in Seq(Cases) /\ Len(tests') = Len(tests)
        /\ DOMAIN tests' = DOMAIN tests
        /\ \A i \in DOMAIN tests : i # cur => tests'[i] = tests[i]
      BY <1>1, <1>2, <2>1, SetCaseKeeps
  <2>3. QED BY <1>1, <1>2, <1>3, <2>1, <2>2 DEF IndInv, Data, OneRuns, Flagged, Executing
<1>5. CASE Skip
  <2> DEFINE t == UpdateStatus(tests[cur], "skipped", TRUE, FALSE)
  <2>1. t \in Cases /\ t.status # "running" /\ SetCase(t) /\ pc' = "top"
      BY <1>1, <1>2, <1>3, <1>5, UpdateStatusType DEF Skip, Goto
  <2> HIDE DEF t
  <2>2. /\ tests' \in Seq(Cases) /\ Len(tests') = Len(tests)
        /\ DOMAIN tests' = DOMAIN tests /\ tests'[cur] = t
        /\ \A i \in DOMAIN tests : i # cur => tests'[i] = tests[i]
      BY <1>1, <1>2, <2>1, SetCaseKeeps
  <2>3. QED BY <1>1, <1>2, <1>3, <2>1, <2>2 DEF IndInv, Data, OneRuns, Flagged, Executing
<1>6. QED BY <1>4, <1>5

LEMMA WrapUpKeeps ==
    ASSUME IndInv, WrapUp
    PROVE  IndInv'
<1>1. /\ tests' \in Seq(Cases) /\ Len(tests') >= Len(tests)
      /\ \A i \in DOMAIN tests' : tests'[i].status # "running"
    BY WrapUpStopsAll
<1>2. /\ UNCHANGED <<cur, exit_rtc, stop>> /\ pc' \in {"offered", "top"}
      /\ Len(tests) \in Nat /\ Len(tests') \in Nat
    BY <1>1 DEF WrapUp, Goto, flagVars, history, IndInv, Data
<1>3. QED BY <1>1, <1>2 DEF IndInv, Data, OneRuns, Flagged, Executing

LEMMA PauseReportKeep ==
    ASSUME IndInv, Pause \/ Report
    PROVE  IndInv' /\ tests' = tests
BY DEF Pause, Report, Goto, flagVars, history, IndInv, Data, OneRuns, Flagged, Executing

(* SIGINT: the case is cut short, or the tool ends. *)
LEMMA InterruptCaseKeeps ==
    ASSUME IndInv, InterruptCase
    PROVE  /\ IndInv'
           /\ \A i \in DOMAIN tests :
                  tests'[i].status = "running" => tests[i].status = "running"
<1>1. pc \in Executing /\ pc' = "wrap" /\ cur' = cur /\ Data
    BY DEF InterruptCase, InTestCase, Goto, IndInv, Executing
<1>2. cur \in DOMAIN tests /\ tests[cur] \in Cases
    BY <1>1 DEF Data
<1> DEFINE t == UpdateStatus(tests[cur], "not_finished", TRUE, FALSE)
<1>3. t \in Cases /\ t.status # "running" /\ SetCase(t)
    BY <1>1, <1>2, UpdateStatusType DEF InterruptCase
<1> HIDE DEF t
<1>4. /\ tests' \in Seq(Cases) /\ Len(tests') = Len(tests)
      /\ DOMAIN tests' = DOMAIN tests /\ tests'[cur] = t
      /\ \A i \in DOMAIN tests : i # cur => tests'[i] = tests[i]
    BY <1>1, <1>2, <1>3, SetCaseKeeps
<1>5. exit_rtc' \in BOOLEAN /\ stop' \in BOOLEAN /\ (stop' => exit_rtc')
  <2>1. CASE exit_rtc \/ exit_test_case
      BY <2>1 DEF InterruptCase, IndInv, Data, Flagged
  <2>2. CASE ~(exit_rtc \/ exit_test_case)
    <3>1. PICK again \in BOOLEAN : exit_rtc' = again /\ stop' = (stop \/ again)
        BY <2>2 DEF InterruptCase
    <3>2. stop = FALSE
        BY <2>2 DEF IndInv, Data, Flagged
    <3>3. QED BY <3>1, <3>2
  <2>3. QED BY <2>1, <2>2
<1>6. QED BY <1>1, <1>2, <1>3, <1>4, <1>5 DEF IndInv, Data, OneRuns, Flagged, Executing

LEMMA InterruptToolKeeps ==
    ASSUME IndInv, InterruptTool
    PROVE  /\ IndInv'
           /\ \A i \in DOMAIN tests :
                  tests'[i].status = "running" => tests[i].status = "running"
<1>1. UNCHANGED <<cur, exit_rtc, stop>> /\ pc' = "killed" /\ tests' = Finished(tests)
    BY DEF InterruptTool, Goto, flagVars
<1>2. CASE cur > 0 /\ tests[cur].status = "running"
  <2> DEFINE t == UpdateStatus(tests[cur], "not_finished", TRUE, FALSE)
  <2>1. cur \in DOMAIN tests /\ tests[cur] \in Cases /\ Data
    <3>1. cur \in 0 .. Len(tests) /\ tests \in Seq(Cases)
        BY DEF IndInv, Data
    <3>2. QED BY <1>2, <3>1 DEF IndInv
  <2>2. t \in Cases /\ t.status # "running" /\ SetCase(t)
      BY <1>1, <1>2, <2>1, UpdateStatusType DEF Finished, SetCase
  <2> HIDE DEF t
  <2>3. /\ tests' \in Seq(Cases) /\ Len(tests') = Len(tests)
        /\ DOMAIN tests' = DOMAIN tests /\ tests'[cur] = t
        /\ \A i \in DOMAIN tests : i # cur => tests'[i] = tests[i]
      BY <2>1, <2>2, SetCaseKeeps
  <2>4. QED BY <1>1, <2>1, <2>2, <2>3 DEF IndInv, Data, OneRuns, Flagged, Executing
<1>3. CASE ~(cur > 0 /\ tests[cur].status = "running")
  <2>1. tests' = tests
      BY <1>1, <1>3 DEF Finished
  <2>2. \A i \in DOMAIN tests : tests[i].status # "running"
    <3>1. tests \in Seq(Cases) /\ \A i \in DOMAIN tests : i > 0
        BY DEF IndInv, Data
    <3>2. QED BY <1>3, <3>1 DEF IndInv, OneRuns
  <2>3. QED BY <1>1, <2>1, <2>2 DEF IndInv, Data, OneRuns, Flagged, Executing
<1>4. QED BY <1>2, <1>3

LEMMA SetStatusKeeps ==
    ASSUME IndInv, NEW status, SetStatus(status)
    PROVE  /\ IndInv'
           /\ \A i \in DOMAIN tests :
                  tests'[i].status = "running" => tests[i].status = "running"
<1>1. UNCHANGED <<cur, pc, exit_rtc, stop>> /\ tests' = ForceStatus(tests, status)
    BY DEF SetStatus, mainVars, flagVars
<1>2. /\ tests' \in Seq(Cases) /\ Len(tests') = Len(tests)
      /\ DOMAIN tests' = DOMAIN tests
      /\ \A i \in DOMAIN tests : tests'[i].status = tests[i].status
    BY <1>1, ForceStatusKeeps DEF IndInv
<1>3. QED BY <1>1, <1>2 DEF IndInv, Data, OneRuns, Flagged

----------------------------------------------------------------------------
(* Every step keeps the invariant, and only initialize makes a case run.   *)
LEMMA StepKeeps ==
    ASSUME IndInv, [Next]_vars
    PROVE  /\ IndInv'
           /\ \/ pc = "initialize" \/ WrapUp
              \/ \A i \in DOMAIN tests :
                     tests'[i].status = "running" => tests[i].status = "running"
<1>1. CASE Run \/ LackKey \/ LeavePhase \/ BeginPhase \/ EndPhases
    BY <1>1, RunStep, CaseStepKeeps
<1>2. CASE Orders
    BY <1>2, OrdersKeep
<1>3. CASE TakeTestCase
    BY <1>3, TakeTestCaseKeeps
<1>4. CASE Initialize \/ Skip
    BY <1>4, InitializeKeeps DEF Initialize, Skip
<1>5. CASE WrapUp
    BY <1>5, WrapUpKeeps
<1>6. CASE Pause \/ Report
    BY <1>6, PauseReportKeep
<1>7. CASE InterruptCase
    BY <1>7, InterruptCaseKeeps
<1>8. CASE InterruptTool
    BY <1>8, InterruptToolKeeps
<1>9. ASSUME NEW status \in {"SUCCESS", "FAILED"}, SetStatus(status)
      PROVE  /\ IndInv'
             /\ \A i \in DOMAIN tests :
                    tests'[i].status = "running" => tests[i].status = "running"
    BY <1>9, SetStatusKeeps
<1>10. CASE UNCHANGED vars
    BY <1>10 DEF vars, mainVars, flagVars, history, IndInv, Data, OneRuns, Flagged
<1>11. QED BY <1>1, <1>2, <1>3, <1>4, <1>5, <1>6, <1>7, <1>8, <1>9, <1>10
           DEF Next, Main, Run, Orders

(* Main loop, suite and flags are always as IndInv says, whatever is ordered. *)
THEOREM IndInvHolds == Spec => []IndInv
<1>1. Init => IndInv
  <2> SUFFICES ASSUME Init PROVE IndInv
      OBVIOUS
  <2>1. /\ DOMAIN tests = 1 .. Len(Suite) /\ Len(Suite) \in Nat
        /\ \A i \in DOMAIN tests :
               tests[i] \in Cases /\ tests[i].status = "not_executed"
      BY SuiteAssumption, NewCaseType DEF Init, IsSequence
  <2>2. tests \in [1 .. Len(Suite) -> Cases]
      BY <2>1 DEF Init
  <2>3. tests \in Seq(Cases) /\ Len(tests) \in Nat
      BY <2>1, <2>2, SeqOfFunction
  <2>4. Data /\ Flagged
    <3>1. cur = 0 /\ pc = "top" /\ exit_rtc = FALSE /\ stop = FALSE
        BY DEF Init
    <3>2. cur \in 0 .. Len(tests)
        BY <2>3, <3>1
    <3>3. exit_rtc \in BOOLEAN /\ stop \in BOOLEAN /\ ~stop
        BY <3>1, Zenon
    <3>4. pc \notin Executing \cup {"initialize"}
        BY <3>1 DEF Executing
    <3>5. QED BY <2>3, <3>2, <3>3, <3>4, Zenon DEF Data, Flagged
  <2>5. OneRuns
      BY <2>1 DEF OneRuns
  <2>6. QED BY <2>4, <2>5 DEF IndInv
<1>2. IndInv /\ [Next]_vars => IndInv'
    BY StepKeeps
<1>3. QED BY <1>1, <1>2, PTL DEF Spec

(* For any suite: once a stop is ordered no further test case is started.  *)
(* The flag of the loop keeps the order, whatever the case does, until it  *)
(* is looked at.                                                           *)
THEOREM QuitIsObeyed == Spec => QuitObeyed
<1>1. IndInv /\ [Next]_vars =>
          [\A i \in DOMAIN tests :
               tests[i].status = "not_executed" /\ tests'[i].status = "running"
               => ~stop]_vars
  <2> SUFFICES ASSUME IndInv, [Next]_vars, NEW i \in DOMAIN tests,
                      tests[i].status = "not_executed",
                      tests'[i].status = "running"
               PROVE  ~stop
      OBVIOUS
  <2>1. CASE pc = "initialize"
      BY <2>1 DEF IndInv, Flagged
  <2>2. CASE WrapUp
    <3>1. /\ tests \in Seq(Cases) /\ tests' \in Seq(Cases)
          /\ Len(tests') >= Len(tests)
        BY <2>2, WrapUpStopsAll DEF IndInv, Data
    <3>2. /\ DOMAIN tests = 1 .. Len(tests) /\ Len(tests) \in Nat
          /\ DOMAIN tests' = 1 .. Len(tests') /\ Len(tests') \in Nat
        BY <3>1, SeqDomain, Zenon
    <3>3. 1 .. Len(tests) \subseteq 1 .. Len(tests')
        BY <3>1, <3>2
    <3>4. i \in DOMAIN tests'
        BY <3>2, <3>3, Zenon
    <3>5. QED BY <2>2, <3>4, WrapUpStopsAll
  <2>3. QED BY <2>1, <2>2, StepKeeps
<1>2. QED BY <1>1, IndInvHolds, PTL DEF Spec, QuitObeyed

----------------------------------------------------------------------------
(* The verdict of the suite. A case that is not through has one attempt;   *)
(* the verdict of an attempt is what its steps made of it, unless a later  *)
(* attempt replaced it.                                                    *)
Open(i) == cur < i \/ (cur = i /\ pc \in Executing \cup {"initialize"})

Attempts ==
    \A i, j \in DOMAIN tests : i < j /\ Open(i) => tests[i].case # tests[j].case

Latest(i) == \A j \in DOMAIN tests : j > i => tests[j].case # tests[i].case

Verdicts ==
    ~overruled => \A i \in DOMAIN tests :
                      tests[i].report_not_valid <=> tests[i].invalid /\ Latest(i)

LEMMA AttemptsKept ==
    ASSUME Attempts, DOMAIN tests' = DOMAIN tests,
           \A i \in DOMAIN tests : tests'[i].case = tests[i].case,
           \A i \in DOMAIN tests : Open(i)' => Open(i)
    PROVE  Attempts'
BY DEF Attempts

LEMMA VerdictsKept ==
    ASSUME Verdicts, DOMAIN tests' = DOMAIN tests, overruled' = overruled,
           \A i \in DOMAIN tests : SameVerdict(tests[i], tests'[i])
    PROVE  Verdicts'
BY DEF Verdicts, Latest, SameVerdict

(* The steps of the current case. *)
LEMMA CaseStepJudges ==
    ASSUME IndInv, Attempts, Verdicts, pc \in Executing, pc' \in Executing,
           UNCHANGED <<cur, overruled>>,
           \/ tests' = tests
           \/ \E t \in Cases : SetCase(t) /\ OnlyWorse(tests[cur], t)
    PROVE  Attempts' /\ Verdicts'
<1>1. Data /\ cur \in DOMAIN tests
    BY DEF IndInv, Data
<1>2. \A i \in DOMAIN tests : Open(i)' => Open(i)
    BY <1>1 DEF Open
<1>3. CASE tests' = tests
    BY <1>1, <1>2, <1>3, AttemptsKept, VerdictsKept DEF SameVerdict
<1>4. ASSUME NEW t \in Cases, SetCase(t), OnlyWorse(tests[cur], t)
      PROVE  Attempts' /\ Verdicts'
  <2>1. /\ DOMAIN tests' = DOMAIN tests /\ tests'[cur] = t
        /\ \A i \in DOMAIN tests : i # cur => tests'[i] = tests[i]
      BY <1>1, <1>4, SetCaseKeeps
  <2>2. \A i \in DOMAIN tests : tests'[i].case = tests[i].case
      BY <1>4, <2>1 DEF OnlyWorse, SameVerdict
  <2>3. Attempts'
      BY <1>2, <2>1, <2>2, AttemptsKept
  <2>4. Latest(cur) /\ (\A i \in DOMAIN tests : Latest(i)' <=> Latest(i))
    <3>1. Open(cur) /\ \A j \in DOMAIN tests : j > cur => cur < j
        BY <1>1 DEF Open, Data
    <3>2. QED BY <1>1, <2>1, <2>2, <3>1 DEF Attempts, Latest
  <2>5. ASSUME ~overruled, NEW i \in DOMAIN tests
        PROVE  tests'[i].report_not_valid <=> tests'[i].invalid /\ Latest(i)'
    <3>1. tests[i].report_not_valid <=> tests[i].invalid /\ Latest(i)
        BY <2>5 DEF Verdicts
    <3>2. CASE i # cur
        BY <2>1, <2>4, <2>5, <3>1, <3>2
    <3>3. CASE i = cur
        BY <1>4, <2>1, <2>4, <2>5, <3>1, <3>3 DEF OnlyWorse, SameVerdict
    <3>4. QED BY <3>2, <3>3
  <2>6. QED BY <1>1, <2>1, <2>3, <2>5 DEF Verdicts
<1>5. QED BY <1>3, <1>4

(* finish() is not a verdict. *)
LEMMA FinishedKeeps ==
    ASSUME Data
    PROVE  /\ Finished(tests) \in Seq(Cases) /\ Len(Finished(tests)) = Len(tests)
           /\ DOMAIN Finished(tests) = DOMAIN tests
           /\ \A i \in DOMAIN tests : SameVerdict(tests[i], Finished(tests)[i])
<1>1. CASE cur > 0 /\ tests[cur].status = "running"
  <2> DEFINE t == UpdateStatus(tests[cur], "not_finished", TRUE, FALSE)
  <2>1. cur \in DOMAIN tests /\ tests[cur] \in Cases /\ tests \in Seq(Cases)
    <3>1. cur \in 0 .. Len(tests) /\ tests \in Seq(Cases)
        BY DEF Data
    <3>2. QED BY <1>1, <3>1
  <2>2. t \in Cases /\ SameVerdict(tests[cur], t)
      BY <2>1, UpdateStatusType
  <2>3. Finished(tests) = [tests EXCEPT ![cur] = t]
      BY <1>1 DEF Finished
  <2> HIDE DEF t
  <2>4. \A i \in DOMAIN tests : i # cur => Finished(tests)[i] = tests[i]
      BY <2>3
  <2>5. QED BY <2>1, <2>2, <2>3, <2>4 DEF SameVerdict
<1>2. CASE ~(cur > 0 /\ tests[cur].status = "running")
    BY <1>2 DEF Finished, Data, SameVerdict
<1>3. QED BY <1>1, <1>2

(* A repetition takes the verdict of the repeated attempt back. *)
LEMMA RepeatJudges ==
    ASSUME Attempts, Verdicts, NEW ts \in Seq(Cases), Len(ts) = Len(tests),
           tests \in Seq(Cases), cur \in DOMAIN tests, pc \in Executing,
           \A i \in DOMAIN tests : SameVerdict(tests[i], ts[i]),
           tests' = RepeatTestCase(ts), UNCHANGED <<cur, overruled>>,
           pc' \in {"offered", "top"}
    PROVE  Attempts' /\ Verdicts'
<1> DEFINE mended == [ts EXCEPT ![cur].report_not_valid = FALSE]
           again == Clone(ts[cur])
           n == Len(tests)
<1>1. /\ DOMAIN tests = 1 .. n /\ DOMAIN ts = 1 .. n /\ n \in Nat
      /\ cur \in 1 .. n /\ cur \in Nat /\ ts[cur] \in Cases
    OBVIOUS
<1>2. /\ again \in Cases /\ again.case = tests[cur].case
      /\ ~again.report_not_valid /\ ~again.invalid
    BY <1>1, CloneType DEF SameVerdict
<1>3. /\ mended \in Seq(Cases) /\ Len(mended) = n
      /\ \A i \in 1 .. n : i # cur => mended[i] = ts[i]
      /\ mended[cur].case = ts[cur].case /\ ~mended[cur].report_not_valid
  <2>1. [ts[cur] EXCEPT !.report_not_valid = FALSE] \in Cases
      BY <1>1 DEF Cases
  <2>2. mended = [ts EXCEPT ![cur] = [ts[cur] EXCEPT !.report_not_valid = FALSE]]
      BY <1>1
  <2>3. /\ [ts[cur] EXCEPT !.report_not_valid = FALSE].case = ts[cur].case
        /\ ~[ts[cur] EXCEPT !.report_not_valid = FALSE].report_not_valid
      BY <1>1 DEF Cases
  <2> HIDE DEF mended
  <2>4. QED BY <1>1, <2>1, <2>2, <2>3
<1>4. tests' = InsertAt(mended, cur + 1, again)
    BY DEF RepeatTestCase
<1> HIDE DEF mended, again
<1>5. cur + 1 \in Nat /\ cur + 1 \in 1 .. Len(mended) + 1
    BY <1>1, <1>3
<1>6. DOMAIN tests' = 1 .. n + 1
  <2>1. tests' \in Seq(Cases) /\ Len(tests') = Len(mended) + 1
      BY <1>2, <1>3, <1>4, <1>5, InsertAtType
  <2>2. QED BY <1>1, <1>3, <2>1
<1>7. \A k \in 1 .. n + 1 :
          tests'[k] = IF k < cur + 1 THEN mended[k]
                      ELSE IF k = cur + 1 THEN again ELSE mended[k - 1]
  <2> TAKE k \in 1 .. n + 1
  <2>1. k \in 1 .. Len(mended) + 1
      BY <1>3
  <2>2. ASSUME NEW e \in Cases, NEW i \in Nat, i \in 1 .. Len(mended) + 1
        PROVE  InsertAt(mended, i, e)[k] =
                   IF k < i THEN mended[k] ELSE IF k = i THEN e ELSE mended[k - 1]
      BY <1>3, <2>1, <2>2, InsertAtElements
  <2>3. QED BY <1>2, <1>4, <1>5, <2>2
\* where an attempt was before
<1> DEFINE old(k) == IF k <= cur THEN k ELSE k - 1
<1>8. \A k \in 1 .. n + 1 :
          /\ old(k) \in 1 .. n
          /\ tests'[k].case = tests[old(k)].case
          /\ k < cur \/ k > cur + 1 => SameVerdict(tests[old(k)], tests'[k])
  <2> SUFFICES ASSUME NEW k \in 1 .. n + 1
               PROVE  /\ old(k) \in 1 .. n
                      /\ tests'[k].case = tests[old(k)].case
                      /\ k < cur \/ k > cur + 1 => SameVerdict(tests[old(k)], tests'[k])
      OBVIOUS
  <2>1. old(k) \in 1 .. n
      BY <1>1
  <2>2. SameVerdict(tests[old(k)], ts[old(k)])
      BY <1>1, <2>1
  <2>3. CASE k < cur \/ k > cur + 1
    <3>1. tests'[k] = mended[old(k)] /\ old(k) # cur
        BY <1>1, <1>7, <2>3
    <3>2. mended[old(k)] = ts[old(k)]
        BY <1>3, <2>1, <3>1
    <3> HIDE DEF old
    <3>3. QED BY <2>1, <2>2, <3>1, <3>2 DEF SameVerdict
  <2>4. CASE k = cur
    <3>1. tests'[k] = mended[cur] /\ old(k) = cur
        BY <1>1, <1>7, <2>4
    <3>2. QED BY <1>1, <1>3, <2>1, <2>2, <2>4, <3>1 DEF SameVerdict
  <2>5. CASE k = cur + 1
    <3>1. tests'[k] = again /\ old(k) = cur
        BY <1>1, <1>7, <2>5
    <3>2. QED BY <1>1, <1>2, <2>1, <2>5, <3>1
  <2>6. QED BY <1>1, <2>3, <2>4, <2>5
<1>9. Attempts'
  <2> SUFFICES ASSUME NEW i \in 1 .. n + 1, NEW j \in 1 .. n + 1, i < j, Open(i)'
               PROVE  tests'[i].case # tests'[j].case
      BY <1>6 DEF Attempts
  <2>1. cur < i
      BY DEF Open, Executing
  <2>2. old(i) < old(j) /\ cur <= old(i)
      BY <1>1, <2>1
  <2>3. old(i) \in DOMAIN tests /\ old(j) \in DOMAIN tests /\ Open(old(i))
      BY <1>1, <1>8, <2>2 DEF Open
  <2> HIDE DEF old
  <2>4. QED BY <1>8, <2>2, <2>3 DEF Attempts
<1>10. ASSUME NEW k \in 1 .. n + 1, k < cur \/ k > cur + 1
       PROVE  Latest(k)' <=> Latest(old(k))
  <2>1. ASSUME Latest(old(k)) PROVE Latest(k)'
    <3> SUFFICES ASSUME NEW j \in 1 .. n + 1, j > k
                 PROVE  tests'[j].case # tests'[k].case
        BY <1>6 DEF Latest
    <3>1. old(j) > old(k) /\ old(j) \in DOMAIN tests
        BY <1>1, <1>8, <1>10
    <3> HIDE DEF old
    <3>2. QED BY <1>8, <2>1, <3>1 DEF Latest
  <2>2. ASSUME Latest(k)' PROVE Latest(old(k))
    <3> SUFFICES ASSUME NEW j \in 1 .. n, j > old(k)
                 PROVE  tests[j].case # tests[old(k)].case
        BY <1>1 DEF Latest
    <3> DEFINE new == IF j <= cur THEN j ELSE j + 1
    <3>1. new \in 1 .. n + 1 /\ new > k /\ old(new) = j
        BY <1>1, <1>10
    <3> HIDE DEF old, new
    <3>2. tests'[new].case # tests'[k].case
        BY <1>6, <2>2, <3>1 DEF Latest
    <3>3. QED BY <1>8, <3>1, <3>2
  <2>3. QED BY <2>1, <2>2
<1>11. ~Latest(cur)'
  <2>1. /\ cur + 1 \in DOMAIN tests' /\ cur + 1 > cur
        /\ tests'[cur + 1].case = tests'[cur].case
      BY <1>1, <1>6, <1>8
  <2>2. QED BY <2>1 DEF Latest
<1>12. ASSUME ~overruled', NEW k \in 1 .. n + 1
       PROVE  tests'[k].report_not_valid <=> tests'[k].invalid /\ Latest(k)'
  <2>1. CASE k < cur \/ k > cur + 1
    <3>1. old(k) \in DOMAIN tests /\ SameVerdict(tests[old(k)], tests'[k])
        BY <1>1, <1>8, <2>1
    <3>2. Latest(k)' <=> Latest(old(k))
        BY <1>10, <2>1
    <3> HIDE DEF old
    <3>3. QED BY <1>12, <3>1, <3>2 DEF Verdicts, SameVerdict
  <2>2. CASE k = cur
    <3>1. tests'[k] = mended[cur]
        BY <1>1, <1>7, <2>2
    <3>2. QED BY <1>3, <1>11, <2>2, <3>1
  <2>3. CASE k = cur + 1
    <3>1. tests'[k] = again
        BY <1>1, <1>7, <2>3
    <3>2. QED BY <1>2, <3>1
  <2>4. QED BY <1>1, <2>1, <2>2, <2>3
<1>13. QED BY <1>6, <1>9, <1>12 DEF Verdicts

LEMMA WrapUpJudges ==
    ASSUME IndInv, Attempts, Verdicts, WrapUp
    PROVE  Attempts' /\ Verdicts'
<1> DEFINE ts == Finished(tests)
<1>1. /\ Data /\ cur \in DOMAIN tests /\ pc \in Executing
      /\ UNCHANGED <<cur, overruled>> /\ pc' \in {"offered", "top"}
    BY DEF IndInv, Data, WrapUp, Goto, history, Executing
<1>2. /\ ts \in Seq(Cases) /\ Len(ts) = Len(tests) /\ DOMAIN ts = DOMAIN tests
      /\ \A i \in DOMAIN tests : SameVerdict(tests[i], ts[i])
    BY <1>1, FinishedKeeps
<1>3. tests' = IF ShallRepeat(ts[cur]) THEN RepeatTestCase(ts) ELSE ts
    BY DEF WrapUp
<1> HIDE DEF ts
<1>4. CASE ShallRepeat(ts[cur])
    BY <1>1, <1>2, <1>3, <1>4, RepeatJudges DEF Data
<1>5. CASE ~ShallRepeat(ts[cur])
  <2>1. tests' = ts
      BY <1>3, <1>5
  <2>2. \A i \in DOMAIN tests : Open(i)' => Open(i)
      BY <1>1 DEF Open, Executing
  <2>3. QED BY <1>1, <1>2, <2>1, <2>2, AttemptsKept, VerdictsKept DEF SameVerdict
<1>6. QED BY <1>4, <1>5

(* The main loop around the test cases, the interrupts and the orders. *)
LEMMA LoopJudges ==
    ASSUME IndInv, Attempts, Verdicts,
           TakeTestCase \/ Initialize \/ Skip \/ Pause \/ Report \/ Orders
           \/ InterruptTool \/ UNCHANGED vars
    PROVE  Attempts' /\ Verdicts'
<1>1. overruled' = overruled
    BY DEF TakeTestCase, Initialize, Skip, Pause, Report, Orders, InterruptTool,
           Quit, ContinueQuit, ForceQuit, CtrlC, Resume, Answer, Drop,
           InterruptTraffic, OrderUnchanged, history, vars
<1>2. \A i \in DOMAIN tests : Open(i)' => Open(i)
  <2>1. CASE TakeTestCase
    <3>1. cur \in Int /\ \A i \in DOMAIN tests : i \in Int
        BY DEF IndInv, Data
    <3>2. QED BY <2>1, <3>1 DEF TakeTestCase, Goto, Open, Executing
  <2>2. CASE ~TakeTestCase
    <3>1. /\ cur' = cur
          /\ pc' \in Executing \cup {"initialize"} => pc \in Executing \cup {"initialize"}
        BY <2>2 DEF Initialize, Skip, Pause, Report, Orders, InterruptTool,
               Quit, ContinueQuit, ForceQuit, CtrlC, Resume, Answer, Drop,
               InterruptTraffic, OrderUnchanged, mainVars, vars, Goto, Executing
    <3>2. QED BY <3>1 DEF Open
  <2>3. QED BY <2>1, <2>2
<1>3. DOMAIN tests' = DOMAIN tests /\ \A i \in DOMAIN tests : SameVerdict(tests[i], tests'[i])
  <2>1. CASE Initialize \/ Skip
    <3>0. pc = "initialize"
        BY <2>1 DEF Initialize, Skip
    <3>1. Data /\ cur \in DOMAIN tests /\ tests[cur] \in Cases
        BY <3>0 DEF IndInv, Data
    <3>2. PICK status \in {"running", "skipped"}, message \in BOOLEAN :
              SetCase(UpdateStatus(tests[cur], status, message, FALSE))
        BY <2>1 DEF Initialize, Skip
    <3> DEFINE t == UpdateStatus(tests[cur], status, message, FALSE)
    <3>3. t \in Cases /\ SameVerdict(tests[cur], t)
        BY <3>1, UpdateStatusType
    <3> HIDE DEF t
    <3>4. /\ DOMAIN tests' = DOMAIN tests /\ tests'[cur] = t
          /\ \A i \in DOMAIN tests : i # cur => tests'[i] = tests[i]
        BY <3>1, <3>2, <3>3, SetCaseKeeps DEF t
    <3>5. QED BY <3>3, <3>4 DEF SameVerdict
  <2>2. CASE InterruptTool
      BY <2>2, FinishedKeeps DEF InterruptTool, IndInv
  <2>3. CASE ~(Initialize \/ Skip) /\ ~InterruptTool
    <3>1. tests' = tests
        BY <2>3 DEF TakeTestCase, Pause, Report, Orders, Quit, ContinueQuit,
               ForceQuit, CtrlC, Resume, Answer, Drop, InterruptTraffic,
               OrderUnchanged, vars
    <3>2. QED BY <3>1 DEF SameVerdict
  <2>4. QED BY <2>1, <2>2, <2>3
<1>4. QED BY <1>1, <1>2, <1>3, AttemptsKept, VerdictsKept DEF SameVerdict

LEMMA InterruptCaseStep ==
    ASSUME IndInv, InterruptCase
    PROVE  /\ pc \in Executing /\ UNCHANGED <<cur, overruled>> /\ pc' \in Executing
           /\ \E t \in Cases : SetCase(t) /\ OnlyWorse(tests[cur], t)
<1>1. pc \in Executing /\ UNCHANGED <<cur, overruled>> /\ pc' \in Executing
    BY DEF InterruptCase, InTestCase, Goto, Executing
<1>2. tests[cur] \in Cases
    BY <1>1 DEF IndInv, Data
<1>3. QED BY <1>1, <1>2, UpdateStatusType DEF InterruptCase, OnlyWorse

LEMMA StepJudges ==
    ASSUME IndInv, Attempts, Verdicts, [Next]_vars
    PROVE  Attempts' /\ Verdicts'
<1>1. CASE Run \/ LackKey \/ LeavePhase \/ BeginPhase \/ EndPhases
    BY <1>1, RunStep, CaseStepJudges DEF CaseStep
<1>2. CASE InterruptCase
    BY <1>2, InterruptCaseStep, CaseStepJudges
<1>3. CASE WrapUp
    BY <1>3, WrapUpJudges
<1>4. CASE TakeTestCase \/ Initialize \/ Skip \/ Pause \/ Report \/ Orders
           \/ InterruptTool \/ UNCHANGED vars
    BY <1>4, LoopJudges
<1>5. ASSUME NEW status \in {"SUCCESS", "FAILED"}, SetStatus(status)
      PROVE  Attempts' /\ Verdicts'
  <2>1. UNCHANGED <<cur, pc>> /\ tests' = ForceStatus(tests, status) /\ overruled'
      BY <1>5 DEF SetStatus, mainVars
  <2>2. /\ DOMAIN tests' = DOMAIN tests
        /\ \A i \in DOMAIN tests : tests'[i].case = tests[i].case
      BY <2>1, ForceStatusKeeps DEF IndInv
  <2>3. QED BY <2>1, <2>2, AttemptsKept DEF Open, Verdicts
<1>6. QED BY <1>1, <1>2, <1>3, <1>4, <1>5 DEF Next, Main, Run, Orders

(* For any suite, any failures and any repetitions: between test cases,    *)
(* and unless an operator overruled it, the suite is FAILED exactly when   *)
(* the last attempt at some case broke a report_not_valid step.            *)
THEOREM SuiteVerdictHolds == Spec => []SuiteVerdict
<1>1. Init => Attempts /\ Verdicts
  <2> SUFFICES ASSUME Init PROVE Attempts /\ Verdicts
      OBVIOUS
  <2>1. \A i \in DOMAIN tests : /\ tests[i].case = i
                                /\ ~tests[i].report_not_valid /\ ~tests[i].invalid
      BY NewCaseType DEF Init
  <2>2. DOMAIN tests \subseteq Int
      BY SuiteAssumption DEF Init, IsSequence
  <2>3. QED BY <2>1, <2>2 DEF Attempts, Verdicts
<1>2. IndInv /\ Attempts /\ Verdicts /\ [Next]_vars => Attempts' /\ Verdicts'
    BY StepJudges
<1>3. Attempts /\ Verdicts => SuiteVerdict
    BY DEF Verdicts, Latest, SuiteVerdict, SuiteStatus
<1>4. QED BY <1>1, <1>2, <1>3, IndInvHolds, PTL DEF Spec

----------------------------------------------------------------------------
(* A case that ends well. The checks behind the main thread were done on   *)
(* the files as they are now, and held.                                    *)
Steps(n) == IF Phases[n] \in DOMAIN Config THEN DOMAIN Config[Phases[n]] ELSE {}

Passed(n, k) ==
    n < ph \/ (n = ph /\ pc = "step" /\ k < st) \/ pc = "wrap"

Well(kind) ==
    IF kind = "compare" THEN ~CompareFails(files)
    ELSE "EXECUTION" \in DOMAIN files => files["EXECUTION"] = 0

Going == InTestCase \/ (pc = "wrap" /\ tests[cur].status = "finished")

ChecksHold ==
    Going /\ sigint = "none" /\ ~tests[cur].failed =>
        \A n \in DOMAIN Phases : \A k \in Steps(n) : \A kind \in {"compare", "traffic"} :
            Judged(Phases[n], k, kind) /\ Passed(n, k) /\ <<n, k>> \notin unseen
            => Well(kind)

(* A phase is left early only with an interrupt on its way, for the one that *)
(* takes interrupts away does not look at the order.                         *)
CutShort ==
    pc = "step" /\ exit_test_case => sigint # "none" \/ Phase = "EXECUTION"

Places ==
    /\ \A i \in DOMAIN tests :
           cur < i \/ (cur = i /\ pc = "initialize") => tests[i].status = "not_executed"
    /\ InTestCase => tests[cur].status = "running" /\ ph \in Nat \ {0}
    /\ pc = "step" => /\ ph \in DOMAIN Phases /\ Phase \in DOMAIN Config
                      /\ st \in Nat \ {0}
    /\ "EXECUTION" \in DOMAIN files => files["EXECUTION"] \in {0, 1}

CheckInv == Places /\ CutShort /\ ChecksHold

LEMMA EndedCase ==
    ASSUME NEW t \in Cases, t.status = "running", NEW message \in BOOLEAN,
           NEW repeat \in BOOLEAN
    PROVE  /\ UpdateStatus(t, "not_finished", message, repeat).status = "not_finished"
           /\ UpdateStatus(t, "finished", message, repeat).status = "finished"
           /\ UpdateStatus(t, "finished", FALSE, repeat).failed = t.failed
BY DEF UpdateStatus, Cases

LEMMA FailedCaseFails ==
    ASSUME NEW t \in Cases, NEW on
    PROVE  /\ t.failed => FailedCase(t, on).failed
           /\ "add_to_verdict" \in on => FailedCase(t, on).failed
BY DEF FailedCase, UpdateVerdict, Cases

(* An exception ends the case, and not as finished. *)
LEMMA RaiseEnds ==
    ASSUME Data, cur \in DOMAIN tests, NEW t \in Cases, t.status = "running",
           NEW exception, Raise(t, exception)
    PROVE  pc' = "wrap" /\ tests'[cur].status = "not_finished"
<1>1. PICK message \in BOOLEAN, repeat \in BOOLEAN :
          SetCase(UpdateStatus(t, "not_finished", message, repeat))
  <2>1. CASE exception = "run_error"
      BY <2>1 DEF Raise
  <2>2. CASE exception = "BatError"
      BY <2>2 DEF Raise
  <2>3. CASE exception \notin {"run_error", "BatError"}
      BY <2>3 DEF Raise
  <2>4. QED BY <2>1, <2>2, <2>3
<1>2. /\ UpdateStatus(t, "not_finished", message, repeat) \in Cases
      /\ UpdateStatus(t, "not_finished", message, repeat).status = "not_finished"
    BY UpdateStatusType, EndedCase
<1>3. QED BY <1>1, <1>2, SetCaseKeeps DEF Raise, Goto

(* What is left when a step did not end the case. *)
Onward(on, failing) ==
    /\ UNCHANGED <<cur, exit_test_case>>
    /\ tests'[cur].status = "running" /\ tests'[cur].case = tests[cur].case
    /\ tests[cur].failed => tests'[cur].failed
    /\ failing /\ "add_to_verdict" \in on => tests'[cur].failed
    /\ \/ Goto("step", ph, st + 1)
       \/ NextPhase /\ failing /\ "skip_phase_on_fail" \in on

LEMMA StepFailedOnward ==
    ASSUME Data, cur \in DOMAIN tests, tests[cur].status = "running", cur' = cur,
           NEW on, StepFailed(on)
    PROVE  \/ pc' = "wrap" /\ tests'[cur].status = "not_finished"
           \/ Onward(on, TRUE)
<1>1. tests[cur] \in Cases
    BY DEF Data
<1> DEFINE t == FailedCase(tests[cur], on)
<1>2. /\ t \in Cases /\ t.status = "running" /\ t.case = tests[cur].case
      /\ tests[cur].failed => t.failed
      /\ "add_to_verdict" \in on => t.failed
    BY <1>1, FailedCaseType, FailedCaseFails DEF OnlyWorse, SameVerdict
<1>3. \/ Raise(t, "ExitRtc") \/ Raise(t, "StopTestCaseOnFail")
      \/ /\ SetCase(t) /\ UNCHANGED flagVars
         /\ (NextPhase /\ "skip_phase_on_fail" \in on) \/ Goto("step", ph, st + 1)
    BY DEF StepFailed
<1> HIDE DEF t
<1>4. CASE Raise(t, "ExitRtc") \/ Raise(t, "StopTestCaseOnFail")
    BY <1>2, <1>4, RaiseEnds
<1>5. CASE /\ SetCase(t) /\ UNCHANGED flagVars
           /\ (NextPhase /\ "skip_phase_on_fail" \in on) \/ Goto("step", ph, st + 1)
  <2>1. tests'[cur] = t
      BY <1>2, <1>5, SetCaseKeeps
  <2>2. QED BY <1>2, <1>5, <2>1 DEF Onward, flagVars
<1>6. QED BY <1>3, <1>4, <1>5

LEMMA StepDoneOnward ==
    ASSUME Data, cur \in DOMAIN tests, tests[cur].status = "running", cur' = cur,
           StepDone, NEW on
    PROVE  Onward(on, FALSE)
BY DEF StepDone, Onward, flagVars

(* What a step of a phase writes, and what it means that it held. *)
Writes ==
    \/ files' = files
    \/ /\ Step.kind \notin {"compare", "traffic"}
       /\ \E v : /\ files' = Saved(files, Phase, v)
                 /\ Phase = "EXECUTION" => v \in {0, 1}

Held(failing) ==
    ~failing /\ Step.kind \in {"compare", "traffic"} => Well(Step.kind)

LEMMA CheckSteps ==
    ASSUME NEW i \in DOMAIN Suite, NEW p \in DOMAIN Suite[i].phases,
           NEW k \in DOMAIN Suite[i].phases[p],
           Suite[i].phases[p][k].kind \in {"compare", "traffic"}
    PROVE  p = "CHECK"
BY SuiteAssumption DEF CheckKinds

LEMMA StepsDomain ==
    ASSUME NEW i \in DOMAIN Suite, NEW p \in DOMAIN Suite[i].phases
    PROVE  /\ Len(Suite[i].phases[p]) \in Nat
           /\ DOMAIN Suite[i].phases[p] = 1 .. Len(Suite[i].phases[p])
BY SuiteAssumption DEF IsSequence

LEMMA RunOnward ==
    ASSUME IndInv, Places, Run
    PROVE  /\ pc = "step" /\ UNCHANGED <<cur, sigint, unseen>> /\ Writes
           /\ st \in DOMAIN Config[Phase]
           /\ \/ pc' = "wrap" /\ tests'[cur].status = "not_finished"
              \/ \E failing \in BOOLEAN : Onward(Step.on, failing) /\ Held(failing)
<1>1. pc = "step" /\ UNCHANGED <<cur, sigint, unseen>> /\ st <= Len(Config[Phase])
    BY DEF Run, RunCommand, RunBackground, RunCompare, RunRestarts, RunTraffic,
           RunMeasure, RunFrameworkCheck, RunExecution, AtStep, StepUnchanged, history
<1>2. /\ Data /\ cur \in DOMAIN tests /\ tests[cur] \in Cases
      /\ tests[cur].status = "running"
    BY <1>1 DEF IndInv, Data, Places, InTestCase, Executing
<1>3. /\ tests[cur].case \in DOMAIN Suite /\ Phase \in DOMAIN Config
      /\ Config = Suite[tests[cur].case].phases /\ st \in Nat \ {0}
    BY <1>1, <1>2 DEF Cases, Places, Config
<1>4. st \in DOMAIN Config[Phase]
    BY <1>1, <1>3, StepsDomain
<1>5. Phase # "CHECK" => Step.kind \notin {"compare", "traffic"}
    BY <1>3, <1>4, CheckSteps DEF Step
<1> DEFINE Ends == pc' = "wrap" /\ tests'[cur].status = "not_finished"
           Goes(failing) == Onward(Step.on, failing) /\ Held(failing)
<1>6. ASSUME StepFailed(Step.on) PROVE Ends \/ Goes(TRUE)
    BY <1>1, <1>2, <1>6, StepFailedOnward DEF Held
<1>7. ASSUME NEW exception, Raise(tests[cur], exception) PROVE Ends
    BY <1>1, <1>2, <1>7, RaiseEnds
<1>8. ASSUME StepDone, Held(FALSE) PROVE Goes(FALSE)
    BY <1>1, <1>2, <1>8, StepDoneOnward
<1>9. CASE RunCommand
  <2>1. Step.kind = "get"
      BY <1>9 DEF RunCommand, AtStep
  <2>2. Held(FALSE)
      BY <2>1 DEF Held
  <2>3. StepDone \/ StepFailed(Step.on) \/ Raise(tests[cur], "run_error")
      BY <1>9 DEF RunCommand
  <2>4. files' = files \/ files' = Saved(files, Phase, node)
      BY <1>9 DEF RunCommand
  <2>5. Phase # "EXECUTION"
      BY <1>9 DEF RunCommand, AtStep
  <2>6. Writes
      BY <2>1, <2>4, <2>5 DEF Writes
  <2>7. QED BY <1>1, <1>4, <1>6, <1>7, <1>8, <2>2, <2>3, <2>6
<1>10. CASE RunBackground \/ RunMeasure \/ RunRestarts
  <2>1. Held(FALSE)
      BY <1>10 DEF RunBackground, RunMeasure, RunRestarts, AtStep, Held
  <2>2. StepDone \/ StepFailed(Step.on)
      BY <1>10 DEF RunBackground, RunMeasure, RunRestarts
  <2>3. Writes
      BY <1>10 DEF RunBackground, RunMeasure, RunRestarts, caseVars, Writes
  <2>4. QED BY <1>1, <1>4, <1>6, <1>8, <2>1, <2>2, <2>3
<1>11. CASE RunCompare
  <2>1. Step.kind = "compare" /\ Writes
      BY <1>11 DEF RunCompare, AtStep, caseVars, Writes
  <2>2. CASE CompareFails(files)
      BY <1>1, <1>4, <1>6, <1>11, <2>1, <2>2 DEF RunCompare
  <2>3. CASE ~CompareFails(files)
    <3>1. StepDone /\ Held(FALSE)
        BY <1>11, <2>1, <2>3 DEF RunCompare, Held, Well
    <3>2. QED BY <1>1, <1>4, <1>8, <2>1, <3>1
  <2>4. QED BY <2>2, <2>3
<1>12. CASE RunTraffic
  <2>1. Step.kind = "traffic" /\ Writes
      BY <1>12 DEF RunTraffic, AtStep, caseVars, Writes
  <2>2. CASE "EXECUTION" \in DOMAIN files /\ files["EXECUTION"] = 1
      BY <1>1, <1>4, <1>6, <1>12, <2>1, <2>2 DEF RunTraffic
  <2>3. CASE ~("EXECUTION" \in DOMAIN files /\ files["EXECUTION"] = 1)
    <3>1. StepDone
        BY <1>12, <2>3 DEF RunTraffic
    <3>2. Held(FALSE)
        BY <2>1, <2>3 DEF Held, Well, Places
    <3>3. QED BY <1>1, <1>4, <1>8, <2>1, <3>1, <3>2
  <2>4. QED BY <2>2, <2>3
<1>13. CASE RunFrameworkCheck
  <2>1. Writes
      BY <1>13 DEF RunFrameworkCheck, caseVars, Writes
  <2>2. \/ Raise(tests[cur], "Exception") \/ StepFailed(Step.on)
        \/ Raise(FailedCase(tests[cur], Step.on), "Exception")
      BY <1>13 DEF RunFrameworkCheck
  <2>3. ASSUME Raise(FailedCase(tests[cur], Step.on), "Exception") PROVE Ends
      BY <1>1, <1>2, <2>3, FailedCaseType, RaiseEnds
  <2>4. QED BY <1>1, <1>4, <1>6, <1>7, <2>1, <2>2, <2>3
<1>14. CASE RunExecution
  <2>1. Phase = "EXECUTION"
      BY <1>14 DEF RunExecution
  <2>2. Step.kind \notin {"compare", "traffic"} /\ Held(FALSE)
      BY <1>5, <2>1 DEF Held
  <2>3. \/ files' = files \/ files' = Saved(files, "EXECUTION", 0)
        \/ files' = Saved(files, "EXECUTION", 1)
      BY <1>14 DEF RunExecution
  <2>4. Writes
      BY <2>1, <2>2, <2>3 DEF Writes
  <2>5. \/ StepDone
        \/ Raise(tests[cur], "run_error") \/ Raise(tests[cur], "BatError")
        \/ /\ SetCase(UpdateVerdict(tests[cur], FALSE)) /\ UNCHANGED flagVars
           /\ Goto("step", ph, st + 1)
      BY <1>14 DEF RunExecution
  <2>6. ASSUME SetCase(UpdateVerdict(tests[cur], FALSE)), UNCHANGED flagVars,
               Goto("step", ph, st + 1)
        PROVE  Goes(FALSE)
    <3> DEFINE t == UpdateVerdict(tests[cur], FALSE)
    <3>1. /\ t \in Cases /\ t.status = "running" /\ t.failed
          /\ t.case = tests[cur].case
        BY <1>2 DEF UpdateVerdict, Cases
    <3> HIDE DEF t
    <3>2. tests'[cur] = t
        BY <1>2, <2>6, <3>1, SetCaseKeeps DEF t
    <3>3. QED BY <1>1, <2>2, <2>6, <3>1, <3>2 DEF Onward, flagVars
  <2>7. QED BY <1>1, <1>4, <1>7, <1>8, <2>2, <2>4, <2>5, <2>6
<1>15. QED BY <1>9, <1>10, <1>11, <1>12, <1>13, <1>14 DEF Run

LEMMA SavedKeeps ==
    ASSUME NEW v, files' = Saved(files, "CHECK", v), NEW kind \in {"compare", "traffic"},
           Well(kind)
    PROVE  Well(kind)'
<1>1. \A p \in {"PRE", "POST", "EXECUTION"} :
          /\ p \in DOMAIN files' <=> p \in DOMAIN files
          /\ p \in DOMAIN files => files'[p] = files[p]
    BY DEF Saved
<1>2. QED BY <1>1 DEF Well, CompareFails

(* The steps of a phase: what was checked stays checked, for only checks   *)
(* follow the checks, and the step at hand held or counts.                 *)
LEMMA RunKeepsChecks ==
    ASSUME ChecksLast, IndInv, CheckInv, Run
    PROVE  CheckInv'
<1>1. /\ pc = "step" /\ UNCHANGED <<cur, sigint, unseen>> /\ Writes
      /\ st \in DOMAIN Config[Phase]
      /\ Places /\ CutShort /\ ChecksHold
    BY RunOnward DEF CheckInv
<1>2. /\ Data /\ cur \in DOMAIN tests /\ tests[cur] \in Cases /\ InTestCase
      /\ ph \in DOMAIN Phases /\ ph \in Nat \ {0} /\ Phase \in DOMAIN Config
      /\ st \in Nat \ {0} /\ DOMAIN Phases \subseteq Nat
      /\ tests[cur].case \in DOMAIN Suite
  <2>1. Data /\ cur \in DOMAIN tests /\ tests[cur] \in Cases /\ InTestCase
      BY <1>1 DEF IndInv, Data, InTestCase, Executing
  <2>2. DOMAIN Phases \subseteq Nat
      BY SuiteAssumption DEF IsSequence
  <2>3. QED BY <1>1, <2>1, <2>2 DEF Places, Cases
<1>3. /\ pc' \in Executing /\ DOMAIN tests' = DOMAIN tests
      /\ \A i \in DOMAIN tests : i # cur => tests'[i] = tests[i]
    BY <1>2, RunStep, SetCaseKeeps DEF CaseStep
<1>4. /\ \A i \in DOMAIN tests' :
             cur' < i \/ (cur' = i /\ pc' = "initialize") => tests'[i].status = "not_executed"
      /\ "EXECUTION" \in DOMAIN files' => files'["EXECUTION"] \in {0, 1}
  <2>1. \A i \in DOMAIN tests : cur < i => i # cur
      BY <1>2 DEF Data
  <2>2. "EXECUTION" \in DOMAIN files' => files'["EXECUTION"] \in {0, 1}
      BY <1>1 DEF Places, Writes, Saved
  <2>3. QED BY <1>1, <1>3, <2>1, <2>2 DEF Places, Executing
<1>5. CASE pc' = "wrap" /\ tests'[cur].status = "not_finished"
  <2>1. ~InTestCase' /\ ~Going'
      BY <1>1, <1>5 DEF InTestCase, Going
  <2>2. QED BY <1>4, <1>5, <2>1 DEF CheckInv, Places, CutShort, ChecksHold
<1>6. ASSUME NEW failing \in BOOLEAN, Onward(Step.on, failing), Held(failing)
      PROVE  CheckInv'
  <2>1. /\ UNCHANGED <<cur, exit_test_case, sigint>> /\ Config' = Config
        /\ tests'[cur].status = "running" /\ InTestCase'
        /\ tests[cur].failed => tests'[cur].failed
      BY <1>1, <1>6 DEF Onward, Config, Goto, NextPhase, InTestCase
  <2>2. \/ pc' = "step" /\ ph' = ph /\ st' = st + 1
        \/ /\ pc' = "phases" /\ ph' = ph + 1 /\ failing
           /\ "skip_phase_on_fail" \in Step.on
      BY <1>6 DEF Onward, Goto, NextPhase
  <2>3. Places'
    <3>1. ph' \in Nat \ {0} /\ st + 1 \in Nat \ {0}
        BY <1>2, <2>2
    <3>2. pc' = "step" => Phase' = Phase
        BY <2>2 DEF Phase
    <3>3. QED BY <1>2, <1>4, <2>1, <2>2, <3>1, <3>2 DEF Places
  <2>4. CutShort'
    <3>1. pc' = "step" => Phase' = Phase
        BY <2>2 DEF Phase
    <3>2. QED BY <1>1, <2>1, <3>1 DEF CutShort
  <2>5. ASSUME sigint = "none", ~tests'[cur].failed, NEW n \in DOMAIN Phases,
               NEW k \in Steps(n), NEW kind \in {"compare", "traffic"},
               Judged(Phases[n], k, kind), Passed(n, k)', <<n, k>> \notin unseen
        PROVE  Well(kind)'
    <3>1. /\ Phases[n] \in DOMAIN Config /\ k \in DOMAIN Config[Phases[n]]
          /\ Config[Phases[n]][k].kind = kind
          /\ "add_to_verdict" \in Config[Phases[n]][k].on
          /\ \A j \in 1 .. k - 1 : "skip_phase_on_fail" \notin Config[Phases[n]][j].on
        BY <2>5 DEF Steps, Judged
    <3>2. n \in Nat /\ k \in Nat /\ k >= 1
        BY <1>2, <3>1, StepsDomain DEF Config
    <3>3. Passed(n, k) \/ (n = ph /\ k >= st)
        BY <1>1, <1>2, <2>2, <2>5, <3>2 DEF Passed
    <3>4. Well(kind)
      <4>1. CASE Passed(n, k)
          BY <1>2, <2>1, <2>5, <1>1, <4>1 DEF ChecksHold, Going
      <4>2. CASE n = ph /\ k = st
        <5>1. Step = Config[Phases[n]][k]
            BY <4>2 DEF Step, Phase
        <5>2. ~failing
            BY <1>6, <2>5, <3>1, <5>1 DEF Onward
        <5>3. QED BY <1>6, <3>1, <5>1, <5>2 DEF Held
      <4>3. CASE n = ph /\ k > st
        <5>1. "skip_phase_on_fail" \in Step.on
            BY <1>1, <1>2, <2>2, <2>5, <3>2, <4>3 DEF Passed
        <5>2. st \in 1 .. k - 1
            BY <1>2, <3>2, <4>3
        <5>3. QED BY <3>1, <4>3, <5>1, <5>2 DEF Step, Phase
      <4>4. QED BY <1>2, <3>2, <3>3, <4>1, <4>2, <4>3
    <3>5. CASE files' = files
        BY <3>4, <3>5 DEF Well
    <3>6. ASSUME NEW v, files' = Saved(files, Phase, v) PROVE Well(kind)'
      <4>1. Phases[n] = "CHECK"
          BY <1>2, <3>1, CheckSteps DEF Config
      <4>2. n <= ph
          BY <1>1, <1>2, <3>2, <3>3 DEF Passed
      <4>3. Phase = "CHECK"
          BY <1>2, <3>2, <4>1, <4>2 DEF ChecksLast, Phase
      <4>4. QED BY <3>4, <3>6, <4>3, SavedKeeps
    <3>7. QED BY <1>1, <3>5, <3>6 DEF Writes
  <2>6. ChecksHold'
    <3>1. \A n \in DOMAIN Phases : Steps(n)' = Steps(n)
        BY <2>1 DEF Steps
    <3>2. \A p, k, kind : Judged(p, k, kind)' <=> Judged(p, k, kind)
        BY <2>1 DEF Judged
    <3>3. QED BY <1>1, <2>1, <2>5, <3>1, <3>2 DEF ChecksHold
  <2>7. QED BY <2>3, <2>4, <2>6 DEF CheckInv
<1>7. QED BY <1>5, <1>6, RunOnward DEF CheckInv

(* From phase to phase. *)
LEMMA PhasesKeepChecks ==
    ASSUME IndInv, CheckInv, LeavePhase \/ BeginPhase \/ EndPhases
    PROVE  CheckInv'
<1>1. /\ Places /\ CutShort /\ ChecksHold /\ InTestCase
      /\ UNCHANGED <<cur, sigint, exit_test_case, files, unseen>>
    BY DEF CheckInv, LeavePhase, BeginPhase, EndPhases, flagVars, caseVars, history,
           InTestCase
<1>2. /\ Data /\ cur \in DOMAIN tests /\ tests[cur] \in Cases
      /\ tests[cur].status = "running" /\ ph \in Nat \ {0}
  <2>1. pc \in Executing
      BY <1>1 DEF InTestCase, Executing
  <2>2. QED BY <1>1, <2>1 DEF IndInv, Data, Places
<1>3. Len(Phases) \in Nat /\ DOMAIN Phases = 1 .. Len(Phases)
    BY SuiteAssumption DEF IsSequence
<1>4. \A kind : Well(kind)' <=> Well(kind)
    BY <1>1 DEF Well
<1>5. CASE EndPhases \/ (BeginPhase /\ exit_test_case)
  <2>1. PICK status \in {"finished", "not_finished"}, message \in BOOLEAN :
            /\ SetCase(UpdateStatus(tests[cur], status, message, FALSE))
            /\ pc' = "wrap"
            /\ status = "finished" => ph > Len(Phases) /\ message = FALSE
      BY <1>5 DEF EndPhases, BeginPhase, Goto
  <2> DEFINE t == UpdateStatus(tests[cur], status, message, FALSE)
  <2>2. /\ t \in Cases /\ t.status = status /\ t.case = tests[cur].case
        /\ status = "finished" => t.failed = tests[cur].failed
    <3>1. t \in Cases /\ SameVerdict(tests[cur], t)
        BY <1>2, UpdateStatusType
    <3>2. CASE status = "finished"
      <4>1. message = FALSE
          BY <2>1, <3>2
      <4>2. t.status = "finished" /\ t.failed = tests[cur].failed
          BY <1>2, <3>2, <4>1, EndedCase
      <4>3. QED BY <3>1, <3>2, <4>2 DEF SameVerdict
    <3>3. CASE status = "not_finished"
      <4>1. t.status = "not_finished"
          BY <1>2, <3>3, EndedCase
      <4>2. QED BY <3>1, <3>3, <4>1 DEF SameVerdict
    <3>4. QED BY <3>2, <3>3
  <2> HIDE DEF t
  <2>3. /\ DOMAIN tests' = DOMAIN tests /\ tests'[cur] = t
        /\ \A i \in DOMAIN tests : i # cur => tests'[i] = tests[i]
      BY <1>2, <2>1, <2>2, SetCaseKeeps DEF t
  <2>4. Config' = Config
      BY <1>1, <2>2, <2>3 DEF Config
  <2>5. ~InTestCase'
      BY <2>1 DEF InTestCase
  <2>6. Places'
    <3>1. \A i \in DOMAIN tests : cur < i => i # cur
        BY <1>2 DEF Data
    <3>2. QED BY <1>1, <2>1, <2>3, <2>5, <3>1 DEF Places
  <2>7. ChecksHold'
    <3> SUFFICES ASSUME status = "finished", sigint = "none", ~tests[cur].failed,
                        NEW n \in DOMAIN Phases, NEW k \in Steps(n),
                        NEW kind \in {"compare", "traffic"}, Judged(Phases[n], k, kind),
                        <<n, k>> \notin unseen
                 PROVE  Well(kind)
      <4>1. \A n \in DOMAIN Phases : Steps(n)' = Steps(n)
          BY <2>4 DEF Steps
      <4>2. \A p, k, kind : Judged(p, k, kind)' <=> Judged(p, k, kind)
          BY <2>4 DEF Judged
      <4>3. Going' => status = "finished"
          BY <1>1, <2>2, <2>3, <2>5 DEF Going
      <4>4. QED BY <1>1, <1>4, <2>2, <2>3, <4>1, <4>2, <4>3 DEF ChecksHold
    <3>1. n < ph
        BY <1>2, <1>3, <2>1
    <3>2. QED BY <1>1, <3>1 DEF ChecksHold, Going, Passed
  <2>8. pc' # "step"
      BY <2>1
  <2>9. QED BY <2>6, <2>7, <2>8 DEF CheckInv, CutShort
<1>6. CASE LeavePhase \/ (BeginPhase /\ ~exit_test_case)
  <2>1. tests' = tests /\ Config' = Config
      BY <1>1, <1>6 DEF LeavePhase, BeginPhase, Config
  <2>2. \/ pc' = "phases" /\ ph' = ph + 1 /\ st' = 0
        \/ /\ pc = "phases" /\ ph <= Len(Phases) /\ Phase \in DOMAIN Config
           /\ pc' = "step" /\ ph' = ph /\ st' = 1
      BY <1>6 DEF LeavePhase, BeginPhase, NextPhase, Goto
  <2>3. InTestCase'
      BY <2>2 DEF InTestCase
  <2>4. Places'
    <3>1. ph' \in Nat \ {0}
        BY <1>2, <2>2
    <3>2. pc' = "step" => /\ Phase' = Phase /\ ph' \in DOMAIN Phases
                          /\ Phase \in DOMAIN Config /\ st' \in Nat \ {0}
        BY <1>2, <1>3, <2>2 DEF Phase
    <3>3. QED BY <1>1, <2>1, <2>2, <3>1, <3>2 DEF Places, InTestCase
  <2>5. ChecksHold'
    <3> SUFFICES ASSUME sigint = "none", ~tests[cur].failed,
                        NEW n \in DOMAIN Phases, NEW k \in Steps(n),
                        NEW kind \in {"compare", "traffic"},
                        Judged(Phases[n], k, kind), Passed(n, k)', <<n, k>> \notin unseen
                 PROVE  Well(kind)
      <4>1. \A n \in DOMAIN Phases : Steps(n)' = Steps(n)
          BY <2>1 DEF Steps
      <4>2. \A p, k, kind : Judged(p, k, kind)' <=> Judged(p, k, kind)
          BY <2>1 DEF Judged
      <4>3. QED BY <1>1, <1>4, <2>1, <4>1, <4>2 DEF ChecksHold
    <3>1. Phases[n] \in DOMAIN Config /\ k \in DOMAIN Config[Phases[n]]
        BY DEF Steps
    <3>2. n \in Nat /\ k \in 1 .. Len(Config[Phases[n]])
        BY <1>2, <1>3, <3>1, StepsDomain DEF Config, Cases
    <3>3. CASE n < ph
        BY <1>1, <3>3 DEF ChecksHold, Going, Passed
    <3>4. CASE n = ph
      <4>1. pc' = "phases"
          BY <2>2, <3>2, <3>4 DEF Passed
      <4>2. LeavePhase
          BY <1>6, <3>1, <3>4, <4>1 DEF BeginPhase, Phase, Goto
      <4>3. pc = "step" /\ st > Len(Config[Phase])
          BY <1>1, <4>2 DEF LeavePhase, CutShort
      <4>4. k < st
          BY <1>1, <3>2, <3>4, <4>3 DEF Phase, Places
      <4>5. QED BY <1>1, <3>4, <4>3, <4>4 DEF ChecksHold, Going, Passed
    <3>5. QED BY <1>2, <2>2, <3>2, <3>3, <3>4 DEF Passed
  <2>6. pc' = "step" => ~exit_test_case
      BY <1>6, <2>2 DEF LeavePhase, NextPhase, Goto
  <2>7. QED BY <1>1, <2>4, <2>5, <2>6 DEF CheckInv, CutShort
<1>7. QED BY <1>5, <1>6

(* The orders of the remote control: none touches the case, and the ones   *)
(* that cut it short send an interrupt as well.                            *)
LEMMA OrdersKeepChecks ==
    ASSUME IndInv, CheckInv,
           \/ Orders /\ ~InterruptTraffic
           \/ \E status \in {"SUCCESS", "FAILED"} : SetStatus(status)
           \/ UNCHANGED vars
    PROVE  CheckInv'
<1>1. UNCHANGED <<cur, pc, ph, st, files, unseen>>
    BY DEF Orders, Quit, ContinueQuit, ForceQuit, CtrlC, Resume, Answer, Drop,
           OrderUnchanged, SetStatus, mainVars, caseVars, history, vars
<1>2. /\ sigint' = "none" => sigint = "none"
      /\ exit_test_case' => (exit_test_case /\ sigint' = sigint) \/ sigint' # "none"
  <2>1. CASE Quit
      BY <2>1 DEF Quit
  <2>2. CASE ContinueQuit
      BY <2>2 DEF ContinueQuit
  <2>3. CASE ForceQuit
      BY <2>3 DEF ForceQuit
  <2>4. CASE CtrlC \/ Resume
      BY <2>4 DEF CtrlC, Resume, flagVars
  <2>5. CASE Answer
      BY <2>5 DEF Answer
  <2>6. CASE \E status \in {"SUCCESS", "FAILED"} : SetStatus(status)
      BY <2>6 DEF SetStatus, flagVars
  <2>7. CASE UNCHANGED vars
      BY <2>7 DEF vars, flagVars
  <2>8. CASE Drop
      BY <2>8 DEF Drop, flagVars
  <2>9. QED BY <2>1, <2>2, <2>3, <2>4, <2>5, <2>6, <2>7, <2>8 DEF Orders
<1>3. /\ DOMAIN tests' = DOMAIN tests
      /\ \A i \in DOMAIN tests : /\ tests'[i].status = tests[i].status
                                 /\ tests'[i].case = tests[i].case
                                 /\ tests'[i].failed = tests[i].failed
  <2>1. CASE (Orders /\ ~InterruptTraffic) \/ UNCHANGED vars
      BY <2>1 DEF Orders, Quit, ContinueQuit, ForceQuit, CtrlC, Resume, Answer, Drop,
             OrderUnchanged, vars
  <2>2. ASSUME NEW status \in {"SUCCESS", "FAILED"}, SetStatus(status)
        PROVE  tests' = ForceStatus(tests, status)
      BY <2>2 DEF SetStatus
  <2>3. QED BY <2>1, <2>2, ForceStatusKeeps DEF IndInv
<1>4. pc \in {"phases", "step", "wrap"} =>
          /\ Config' = Config /\ tests'[cur].status = tests[cur].status
          /\ tests'[cur].failed = tests[cur].failed
    BY <1>1, <1>3 DEF Config, IndInv, Data, Executing
<1>5. Places'
  <2>1. InTestCase' <=> InTestCase
      BY <1>1 DEF InTestCase
  <2>2. InTestCase => pc \in {"phases", "step", "wrap"}
      BY DEF InTestCase
  <2>3. Phase' = Phase
      BY <1>1 DEF Phase
  <2>4. QED BY <1>1, <1>3, <1>4, <2>1, <2>2, <2>3 DEF Places, CheckInv
<1>6. CutShort'
  <2>1. Phase' = Phase
      BY <1>1 DEF Phase
  <2>2. QED BY <1>1, <1>2, <2>1 DEF CutShort, CheckInv
<1>7. ChecksHold'
  <2> SUFFICES ASSUME Going', sigint' = "none", ~tests'[cur].failed PROVE ChecksHold'
      BY <1>1 DEF ChecksHold
  <2>1. pc \in {"phases", "step", "wrap"}
      BY <1>1 DEF Going, InTestCase
  <2>2. Going /\ sigint = "none" /\ ~tests[cur].failed
      BY <1>1, <1>2, <1>4, <2>1 DEF Going, InTestCase
  <2>3. \A n \in DOMAIN Phases : Steps(n)' = Steps(n)
      BY <1>4, <2>1 DEF Steps
  <2>4. \A p, k, kind : Judged(p, k, kind)' <=> Judged(p, k, kind)
      BY <1>4, <2>1 DEF Judged
  <2>5. \A n, k, kind : /\ Passed(n, k)' <=> Passed(n, k)
                        /\ Well(kind)' <=> Well(kind)
      BY <1>1 DEF Passed, Well
  <2>6. QED BY <1>1, <2>2, <2>3, <2>4, <2>5 DEF ChecksHold, CheckInv
<1>8. QED BY <1>5, <1>6, <1>7 DEF CheckInv

(* Outside the phases nothing is promised but what lies ahead. *)
LEMMA AheadKeepsChecks ==
    ASSUME CheckInv, pc' \notin {"phases", "step", "wrap"}, files' = files,
           \A i \in DOMAIN tests' :
               cur' < i \/ (cur' = i /\ pc' = "initialize")
               => tests'[i].status = "not_executed"
    PROVE  CheckInv'
<1>1. ~InTestCase' /\ ~Going' /\ pc' # "step"
    BY DEF InTestCase, Going
<1>2. QED BY <1>1 DEF CheckInv, Places, CutShort, ChecksHold

LEMMA LoopKeepsChecks ==
    ASSUME IndInv, CheckInv,
           TakeTestCase \/ Skip \/ Pause \/ Report \/ InterruptTool
    PROVE  CheckInv'
<1>1. pc' \notin {"phases", "step", "wrap"} /\ files' = files
    BY DEF TakeTestCase, Skip, Pause, Report, InterruptTool, Goto, caseVars
<1>2. /\ Data /\ DOMAIN tests \subseteq Int /\ cur \in Int
      /\ \A i \in DOMAIN tests :
             cur < i \/ (cur = i /\ pc = "initialize") => tests[i].status = "not_executed"
    BY DEF IndInv, Data, CheckInv, Places
<1>3. CASE TakeTestCase
  <2>1. tests' = tests /\ cur' \in {cur, cur + 1} /\ (cur' = cur => pc' # "initialize")
      BY <1>2, <1>3 DEF TakeTestCase, Goto
  <2>2. \A i \in DOMAIN tests :
            cur' < i \/ (cur' = i /\ pc' = "initialize") => cur < i
      BY <1>2, <2>1
  <2>3. QED BY <1>1, <1>2, <2>1, <2>2, AheadKeepsChecks
<1>4. CASE Pause \/ Report
  <2>1. tests' = tests /\ cur' = cur /\ pc' # "initialize"
      BY <1>4 DEF Pause, Report, Goto
  <2>2. QED BY <1>1, <1>2, <2>1, AheadKeepsChecks
<1>5. CASE Skip
  <2> DEFINE t == UpdateStatus(tests[cur], "skipped", TRUE, FALSE)
  <2>1. cur \in DOMAIN tests /\ tests[cur] \in Cases /\ SetCase(t)
        /\ cur' = cur /\ pc' # "initialize"
    <3>1. pc = "initialize"
        BY <1>5 DEF Skip
    <3>2. cur \in DOMAIN tests /\ tests[cur] \in Cases
        BY <1>2, <3>1 DEF Data
    <3>3. QED BY <1>5, <3>2 DEF Skip, Goto
  <2>2. t \in Cases
      BY <2>1, UpdateStatusType
  <2> HIDE DEF t
  <2>3. /\ DOMAIN tests' = DOMAIN tests
        /\ \A i \in DOMAIN tests : i # cur => tests'[i] = tests[i]
      BY <1>2, <2>1, <2>2, SetCaseKeeps
  <2>4. QED BY <1>1, <1>2, <2>1, <2>3, AheadKeepsChecks
<1>6. CASE InterruptTool
  <2>1. tests' = Finished(tests) /\ cur' = cur /\ pc' # "initialize"
      BY <1>6 DEF InterruptTool, Goto
  <2>2. /\ DOMAIN tests' = DOMAIN tests
        /\ \A i \in DOMAIN tests : i # cur => tests'[i] = tests[i]
    <3>1. CASE cur > 0 /\ tests[cur].status = "running"
        BY <2>1, <3>1 DEF Finished
    <3>2. CASE ~(cur > 0 /\ tests[cur].status = "running")
        BY <2>1, <3>2 DEF Finished
    <3>3. QED BY <3>1, <3>2
  <2>3. QED BY <1>1, <1>2, <2>1, <2>2, AheadKeepsChecks
<1>7. QED BY <1>3, <1>4, <1>5, <1>6

(* A repeated case waits for its turn like the others. *)
LEMMA WrapUpKeepsChecks ==
    ASSUME IndInv, CheckInv, WrapUp
    PROVE  CheckInv'
<1> DEFINE ts == Finished(tests)
           n == Len(tests)
<1>1. /\ Data /\ cur \in DOMAIN tests /\ cur' = cur /\ files' = files
      /\ pc' \in {"offered", "top"}
    BY DEF IndInv, Data, WrapUp, Goto, Executing
<1>2. /\ ts \in Seq(Cases) /\ Len(ts) = n /\ DOMAIN ts = DOMAIN tests
      /\ DOMAIN tests = 1 .. n /\ n \in Nat /\ cur \in 1 .. n
    BY <1>1, FinishedKeeps DEF Data
<1>3. \A i \in 1 .. n : i > cur => ts[i].status = "not_executed"
  <2>1. CASE cur > 0 /\ tests[cur].status = "running"
      BY <1>2, <2>1 DEF Finished, CheckInv, Places
  <2>2. CASE ~(cur > 0 /\ tests[cur].status = "running")
      BY <1>2, <2>2 DEF Finished, CheckInv, Places
  <2>3. QED BY <2>1, <2>2
<1>4. tests' = IF ShallRepeat(ts[cur]) THEN RepeatTestCase(ts) ELSE ts
    BY DEF WrapUp
<1> HIDE DEF ts
<1>5. \A i \in DOMAIN tests' : cur < i => tests'[i].status = "not_executed"
  <2>1. CASE ~ShallRepeat(ts[cur])
      BY <1>2, <1>3, <1>4, <2>1
  <2>2. CASE ShallRepeat(ts[cur])
    <3> DEFINE mended == [ts EXCEPT ![cur].report_not_valid = FALSE]
               again == Clone(ts[cur])
    <3>1. tests' = InsertAt(mended, cur + 1, again)
        BY <1>4, <2>2 DEF RepeatTestCase
    <3>2. /\ ts[cur] \in Cases /\ again \in Cases /\ again.status = "not_executed"
        BY <1>2, CloneType
    <3>3. /\ mended \in Seq(Cases) /\ Len(mended) = n
          /\ \A i \in 1 .. n : i # cur => mended[i] = ts[i]
      <4>1. [ts[cur] EXCEPT !.report_not_valid = FALSE] \in Cases
          BY <3>2 DEF Cases
      <4>2. mended = [ts EXCEPT ![cur] = [ts[cur] EXCEPT !.report_not_valid = FALSE]]
          BY <1>2
      <4> HIDE DEF mended
      <4>3. QED BY <1>2, <4>1, <4>2
    <3> HIDE DEF mended, again
    <3>4. cur + 1 \in Nat /\ cur + 1 \in 1 .. Len(mended) + 1
        BY <1>2, <3>3
    <3>5. DOMAIN tests' = 1 .. n + 1
      <4>1. tests' \in Seq(Cases) /\ Len(tests') = Len(mended) + 1
          BY <3>1, <3>2, <3>3, <3>4, InsertAtType
      <4>2. QED BY <1>2, <3>3, <4>1
    <3>6. ASSUME NEW k \in 1 .. n + 1, cur < k
          PROVE  tests'[k].status = "not_executed"
      <4>1. k \in 1 .. Len(mended) + 1
          BY <3>3
      <4>2. ASSUME NEW e \in Cases, NEW i \in Nat, i \in 1 .. Len(mended) + 1
            PROVE  InsertAt(mended, i, e)[k] =
                       IF k < i THEN mended[k] ELSE IF k = i THEN e ELSE mended[k - 1]
          BY <3>3, <4>1, <4>2, InsertAtElements
      <4>3. tests'[k] = IF k < cur + 1 THEN mended[k]
                        ELSE IF k = cur + 1 THEN again ELSE mended[k - 1]
          BY <3>1, <3>2, <3>4, <4>2
      <4>4. CASE k = cur + 1
          BY <1>2, <3>2, <4>3, <4>4
      <4>5. CASE k > cur + 1
        <5>1. k - 1 \in 1 .. n /\ k - 1 > cur /\ k - 1 # cur
            BY <1>2, <4>5
        <5>2. tests'[k] = mended[k - 1]
            BY <1>2, <4>3, <4>5
        <5>3. QED BY <1>3, <3>3, <5>1, <5>2
      <4>6. QED BY <1>2, <3>6, <4>4, <4>5
    <3>7. QED BY <3>5, <3>6
  <2>3. QED BY <2>1, <2>2
<1>6. QED BY <1>1, <1>5, AheadKeepsChecks

(* A case begins with nothing checked; an interrupt ends it unfinished. *)
LEMMA InitializeKeepsChecks ==
    ASSUME IndInv, CheckInv, Initialize
    PROVE  CheckInv'
<1>1. /\ pc = "initialize" /\ cur' = cur /\ files' \in {<<>>, files}
      /\ ~exit_test_case' /\ pc' = "phases" /\ ph' = 1
      /\ SetCase(UpdateStatus(tests[cur], "running", FALSE, FALSE))
    BY DEF Initialize, ResetFlags, Goto
<1>2. /\ Data /\ cur \in DOMAIN tests /\ tests[cur] \in Cases
      /\ tests[cur].status = "not_executed"
  <2>1. cur \in DOMAIN tests
      BY <1>1 DEF IndInv, Data
  <2>2. tests[cur].status = "not_executed"
      BY <1>1, <2>1 DEF CheckInv, Places
  <2>3. QED BY <2>1, <2>2 DEF IndInv, Data
<1> DEFINE t == UpdateStatus(tests[cur], "running", FALSE, FALSE)
<1>3. t \in Cases /\ t.status = "running"
    BY <1>2, UpdateStatusType DEF UpdateStatus, Cases
<1> HIDE DEF t
<1>4. /\ DOMAIN tests' = DOMAIN tests /\ tests'[cur] = t
      /\ \A i \in DOMAIN tests : i # cur => tests'[i] = tests[i]
    BY <1>1, <1>2, <1>3, SetCaseKeeps DEF t
<1>5. Places'
  <2>1. \A i \in DOMAIN tests : cur < i => i # cur
      BY <1>2 DEF Data
  <2>2. files' = files \/ DOMAIN files' = {}
      BY <1>1
  <2>3. QED BY <1>1, <1>3, <1>4, <2>1, <2>2 DEF Places, CheckInv
<1>6. CutShort'
    BY <1>1 DEF CutShort
<1>7. ChecksHold'
  <2>1. \A n \in DOMAIN Phases : \A k : ~Passed(n, k)'
      BY <1>1, SuiteAssumption DEF Passed, IsSequence
  <2>2. QED BY <2>1 DEF ChecksHold
<1>8. QED BY <1>5, <1>6, <1>7 DEF CheckInv

LEMMA InterruptCaseKeepsChecks ==
    ASSUME IndInv, CheckInv, InterruptCase
    PROVE  CheckInv'
<1>1. /\ InTestCase /\ cur' = cur /\ files' = files /\ pc' = "wrap"
      /\ SetCase(UpdateStatus(tests[cur], "not_finished", TRUE, FALSE))
    BY DEF InterruptCase, Goto, caseVars
<1>2. /\ Data /\ cur \in DOMAIN tests /\ tests[cur] \in Cases
      /\ tests[cur].status = "running"
    BY <1>1 DEF IndInv, Data, Executing, InTestCase, CheckInv, Places
<1> DEFINE t == UpdateStatus(tests[cur], "not_finished", TRUE, FALSE)
<1>3. t \in Cases /\ t.status = "not_finished"
    BY <1>2, UpdateStatusType, EndedCase
<1> HIDE DEF t
<1>4. /\ DOMAIN tests' = DOMAIN tests /\ tests'[cur] = t
      /\ \A i \in DOMAIN tests : i # cur => tests'[i] = tests[i]
    BY <1>1, <1>2, <1>3, SetCaseKeeps DEF t
<1>5. ~InTestCase' /\ ~Going'
    BY <1>1, <1>3, <1>4 DEF InTestCase, Going
<1>6. \A i \in DOMAIN tests : cur < i => i # cur
    BY <1>2 DEF Data
<1>7. QED BY <1>1, <1>4, <1>5, <1>6 DEF CheckInv, Places, CutShort, ChecksHold

(* A KeyError: the steps it leaves out are on record. *)
LEMMA LackKeyKeepsChecks ==
    ASSUME IndInv, CheckInv, LackKey
    PROVE  CheckInv'
<1>1. /\ Places /\ ChecksHold /\ pc = "step" /\ pc' = "phases" /\ ph' = ph + 1
      /\ UNCHANGED <<tests, cur, sigint, files>>
      /\ unseen' = unseen \cup {<<ph, k>> : k \in st .. Len(Config[Phase])}
    BY DEF CheckInv, LackKey, NextPhase, Goto, caseVars
<1>2. /\ Data /\ cur \in DOMAIN tests /\ tests[cur] \in Cases
      /\ ph \in DOMAIN Phases /\ ph \in Nat \ {0} /\ Phase \in DOMAIN Config
      /\ st \in Nat \ {0} /\ DOMAIN Phases \subseteq Nat
      /\ tests[cur].case \in DOMAIN Suite
  <2>1. Data /\ cur \in DOMAIN tests /\ tests[cur] \in Cases
      BY <1>1 DEF IndInv, Data, Executing
  <2>2. DOMAIN Phases \subseteq Nat
      BY SuiteAssumption DEF IsSequence
  <2>3. QED BY <1>1, <2>1, <2>2 DEF Places, InTestCase, Cases
<1>3. Places' /\ CutShort'
    BY <1>1, <1>2 DEF Places, InTestCase, CutShort
<1>4. ChecksHold'
  <2> SUFFICES ASSUME sigint = "none", ~tests[cur].failed, NEW n \in DOMAIN Phases,
                      NEW k \in Steps(n), NEW kind \in {"compare", "traffic"},
                      Judged(Phases[n], k, kind), Passed(n, k)', <<n, k>> \notin unseen'
               PROVE  Well(kind)
    <3>1. /\ \A n \in DOMAIN Phases : Steps(n)' = Steps(n)
          /\ \A p, k, kind : Judged(p, k, kind)' <=> Judged(p, k, kind)
          /\ \A kind : Well(kind)' <=> Well(kind)
        BY <1>1 DEF Steps, Judged, Config, Well
    <3>2. QED BY <1>1, <3>1 DEF ChecksHold
  <2>1. Phases[n] \in DOMAIN Config /\ k \in DOMAIN Config[Phases[n]]
      BY DEF Steps
  <2>2. n \in Nat /\ k \in 1 .. Len(Config[Phases[n]])
      BY <1>2, <2>1, StepsDomain DEF Config
  <2>3. <<n, k>> \notin unseen
      BY <1>1
  <2>4. ~(n = ph /\ k >= st)
    <3> SUFFICES ASSUME n = ph, k >= st PROVE FALSE
        OBVIOUS
    <3>1. k \in st .. Len(Config[Phase])
        BY <1>2, <2>2 DEF Phase
    <3>2. QED BY <1>1, <3>1
  <2>5. Passed(n, k)
      BY <1>1, <1>2, <2>2, <2>4 DEF Passed
  <2>6. QED BY <1>1, <2>3, <2>5 DEF ChecksHold, Going, InTestCase
<1>5. QED BY <1>3, <1>4 DEF CheckInv

(* An interrupt that stops the traffic only: no check was done before it. *)
LEMMA InterruptTrafficKeepsChecks ==
    ASSUME ChecksLast, IndInv, CheckInv, InterruptTraffic
    PROVE  CheckInv'
<1>1. /\ Places /\ pc = "step" /\ Phase = "EXECUTION"
      /\ UNCHANGED <<tests, cur, pc, ph, st, exit_test_case, files, unseen>>
    BY DEF CheckInv, InterruptTraffic, mainVars, flagVars, caseVars, history
<1>2. /\ cur \in DOMAIN tests /\ tests[cur] \in Cases
      /\ ph \in DOMAIN Phases /\ ph \in Nat \ {0} /\ DOMAIN Phases \subseteq Nat
      /\ tests[cur].case \in DOMAIN Suite
  <2>1. cur \in DOMAIN tests /\ tests[cur] \in Cases
      BY <1>1 DEF IndInv, Data, Executing
  <2>2. DOMAIN Phases \subseteq Nat
      BY SuiteAssumption DEF IsSequence
  <2>3. QED BY <1>1, <2>1, <2>2 DEF Places, InTestCase, Cases
<1>3. Places' /\ CutShort'
    BY <1>1 DEF Places, InTestCase, CutShort, Phase, Config
<1>4. \A n \in DOMAIN Phases : \A k \in Steps(n) : \A kind \in {"compare", "traffic"} :
          Judged(Phases[n], k, kind) => ~Passed(n, k)
  <2> SUFFICES ASSUME NEW n \in DOMAIN Phases, NEW k \in Steps(n),
                      NEW kind \in {"compare", "traffic"},
                      Judged(Phases[n], k, kind), Passed(n, k)
               PROVE  FALSE
      OBVIOUS
  <2>1. Phases[n] \in DOMAIN Config /\ k \in DOMAIN Config[Phases[n]]
        /\ Config[Phases[n]][k].kind = kind
      BY DEF Steps, Judged
  <2>2. Phases[n] = "CHECK"
      BY <1>2, <2>1, CheckSteps DEF Config
  <2>3. n \in Nat /\ (n < ph \/ n = ph)
      BY <1>1, <1>2 DEF Passed
  <2>4. Phase = "CHECK"
      BY <1>2, <2>2, <2>3 DEF ChecksLast, Phase
  <2>5. QED BY <1>1, <2>4
<1>5. ChecksHold'
  <2>1. /\ \A n \in DOMAIN Phases : Steps(n)' = Steps(n)
        /\ \A p, k, kind : Judged(p, k, kind)' <=> Judged(p, k, kind)
        /\ \A n, k : Passed(n, k)' <=> Passed(n, k)
      BY <1>1 DEF Steps, Judged, Config, Passed
  <2>2. QED BY <1>4, <2>1 DEF ChecksHold
<1>6. QED BY <1>3, <1>5 DEF CheckInv

LEMMA StepKeepsChecks ==
    ASSUME ChecksLast, IndInv, CheckInv, [Next]_vars
    PROVE  CheckInv'
<1>1. CASE Run
    BY <1>1, RunKeepsChecks
<1>2. CASE LeavePhase \/ BeginPhase \/ EndPhases
    BY <1>2, PhasesKeepChecks
<1>3. CASE \/ Orders /\ ~InterruptTraffic
           \/ UNCHANGED vars
           \/ \E status \in {"SUCCESS", "FAILED"} : SetStatus(status)
    BY <1>3, OrdersKeepChecks
<1>4. CASE TakeTestCase \/ Skip \/ Pause \/ Report \/ InterruptTool
    BY <1>4, LoopKeepsChecks
<1>5. CASE WrapUp
    BY <1>5, WrapUpKeepsChecks
<1>6. CASE Initialize
    BY <1>6, InitializeKeepsChecks
<1>7. CASE InterruptCase
    BY <1>7, InterruptCaseKeepsChecks
<1>8. CASE LackKey
    BY <1>8, LackKeyKeepsChecks
<1>9. CASE InterruptTraffic
    BY <1>9, InterruptTrafficKeepsChecks
<1>10. QED BY <1>1, <1>2, <1>3, <1>4, <1>5, <1>6, <1>7, <1>8, <1>9
           DEF Next, Main, Run, Orders

(* For any suite whose checks come last: a case that ends without failure  *)
(* has the same node on record before and after, and no error rate above   *)
(* the limit, whatever failed, was skipped, stopped or ordered meanwhile;  *)
(* but for the checks a KeyError left out.                                 *)
THEOREM SuccessIsRealHolds ==
    ASSUME ChecksLast
    PROVE  Spec => []SuccessIsReal
<1>1. Init => CheckInv
  <2> SUFFICES ASSUME Init PROVE CheckInv
      OBVIOUS
  <2>1. /\ cur = 0 /\ pc = "top" /\ files = <<>>
        /\ \A i \in DOMAIN tests : tests[i].status = "not_executed"
      BY NewCaseType DEF Init
  <2>2. ~InTestCase /\ ~Going /\ DOMAIN files = {}
      BY <2>1 DEF InTestCase, Going
  <2>3. QED BY <2>1, <2>2 DEF CheckInv, Places, CutShort, ChecksHold
<1>2. IndInv /\ CheckInv /\ [Next]_vars => CheckInv'
    BY StepKeepsChecks
<1>3. CheckInv => SuccessIsReal
  <2> SUFFICES ASSUME CheckInv, pc = "wrap", tests[cur].status = "finished",
                      ~tests[cur].failed, sigint = "none", NEW n \in DOMAIN Phases,
                      Phases[n] \in DOMAIN Config, NEW k \in DOMAIN Config[Phases[n]]
               PROVE  /\ Judged(Phases[n], k, "compare") /\ <<n, k>> \notin unseen =>
                             ~CompareFails(files)
                      /\ /\ Judged(Phases[n], k, "traffic") /\ <<n, k>> \notin unseen
                         /\ "EXECUTION" \in DOMAIN files
                         => files["EXECUTION"] = 0
      BY DEF SuccessIsReal, CompareFails
  <2>1. Going /\ Passed(n, k) /\ k \in Steps(n)
      BY DEF Going, Passed, Steps
  <2>2. \A kind \in {"compare", "traffic"} :
            Judged(Phases[n], k, kind) /\ <<n, k>> \notin unseen => Well(kind)
      BY <2>1 DEF CheckInv, ChecksHold
  <2>3. QED BY <2>2 DEF Well
<1>4. QED BY <1>1, <1>2, <1>3, IndInvHolds, PTL DEF Spec
=============================================================================
