-------------------------- MODULE ExecutionProofs --------------------------
(***************************************************************************)
(* Proofs about the end of an execution, for any number of BAT instances   *)
(* and of failures.                                                        *)
(***************************************************************************)
EXTENDS Execution, TLAPS

Results == {"", "ok", "error", "user", "crash"}
Executors == [at : Points, i : Ids, phase : Phases \cup {"end"}, ready : BOOLEAN,
              patience : BOOLEAN, result : Results]
Threads == {"new", "begin", "loop", "alias", "over"}
AtWork == {"loop", "alias"}

Data ==
    /\ x \in Executors
    /\ state \in [Ids -> States]
    /\ thread \in [Ids -> Threads]

(* the states of a thread that has set its first one and has not ended *)
WorkingStates ==
    \A b \in Ids : thread[b] \in AtWork =>
        state[b] \in {"starting", "running", "pending_to_stop", "stopping"}

(* The BATs that stop() reached know it, in whatever order they are waited *)
(* for: those the executor has passed are over, or stopping.               *)
Told(b) == ~Alive(b) \/ (thread[b] \in AtWork /\ state[b] \in {"pending_to_stop", "stopping"})
Stopping(b) == ~Alive(b) \/ (thread[b] \in AtWork /\ state[b] = "stopping")

Joined ==
    /\ x.at = "joining" => \A b \in Ids \ lost :
           Told(b) /\ (b < x.i => Stopping(b))
    /\ x.at = "join" => \A b \in Ids : b < x.i => ~Alive(b)
    /\ x.at = "finish" /\ x.result # "crash" => \A b \in Ids \ lost : Stopping(b)

IndInv == Data /\ WorkingStates /\ Joined

----------------------------------------------------------------------------
(* The steps of a BAT, its client and its generator.                       *)
OfBat(b) == BatStep(b) \/ ClientStep(b) \/ GeneratorStep(b) \/ Disturbance(b)

(* What they do to a thread and its state. *)
Progress(b) ==
    \/ UNCHANGED <<state, thread, lost>>
    \/ /\ thread[b] = "begin"
       /\ thread' = [thread EXCEPT ![b] = "loop"]
       /\ state' = [state EXCEPT ![b] = "starting"] /\ lost' = lost
    \/ /\ thread[b] = "loop" /\ thread' = [thread EXCEPT ![b] = "alias"]
       /\ state' = state /\ lost' = lost
    \/ /\ thread[b] = "alias" /\ thread' = [thread EXCEPT ![b] = "loop"]
       /\ state' = [state EXCEPT ![b] = "running"]
       /\ lost' = IF state[b] = "starting" THEN lost ELSE lost \cup {b}
    \/ /\ thread[b] = "loop" /\ thread' = thread /\ lost' = lost
       /\ \E s \in {"pending_to_stop", "stopping"} :
              /\ state' = [state EXCEPT ![b] = s]
              /\ state[b] = "stopping" => s = "stopping"
    \/ /\ thread[b] = "loop" /\ thread' = [thread EXCEPT ![b] = "over"]
       /\ \E s \in States : state' = [state EXCEPT ![b] = s]
       /\ lost' = lost

LEMMA BatProgress ==
    ASSUME Data, NEW b \in Ids, OfBat(b)
    PROVE  x' = x /\ Progress(b)
<1>1. CASE BatStarts(b) \/ AliasSent(b) \/ Aliased(b)
    BY <1>1 DEF BatStarts, AliasSent, Aliased, Progress, executor, history
<1>2. CASE BatStops(b) \/ StartExpires(b) \/ TrafficFinished(b)
    BY <1>2 DEF BatStops, StartExpires, TrafficFinished, Progress, executor, history
<1>3. CASE BatPrompt(b)
  <2>1. \E s \in States : state' = [state EXCEPT ![b] = s]
    <3>1. \/ state' = [state EXCEPT ![b] = "failed"]
          \/ state' = [state EXCEPT ![b] = "stopped"]
        BY <1>3 DEF BatPrompt
    <3>2. QED BY <3>1 DEF States
  <2>2. QED BY <1>3, <2>1 DEF BatPrompt, BatEnds, Progress, executor, history
<1>4. CASE StopExpires(b) \/ EndOfFile(b) \/ Forced(b)
  <2>1. state' = state /\ state = [state EXCEPT ![b] = state[b]] /\ state[b] \in States
      BY <1>4 DEF StopExpires, EndOfFile, Forced, Data
  <2>2. QED BY <1>4, <2>1 DEF StopExpires, EndOfFile, Forced, BatEnds, Progress,
               executor, history
<1>5. CASE ClientStep(b) \/ GeneratorStep(b) \/ ScenariosStop(b) \/ ProcessDies(b)
    BY <1>5 DEF ClientStep, GeneratorStep, ScenariosStop, ProcessDies, Connect,
           OwnerGone, Serve, Does, ServeFails, PhaseFinishes, ProcessEnds, Progress,
           executor, bat, history
<1>6. QED BY <1>1, <1>2, <1>3, <1>4, <1>5 DEF OfBat, BatStep, Disturbance

LEMMA ProgressKeeps ==
    ASSUME IndInv, NEW b \in Ids, x' = x, Progress(b)
    PROVE  IndInv'
<1> USE DEF IndInv, Data
<1>1. /\ state' \in [Ids -> States] /\ thread' \in [Ids -> Threads]
      /\ \A c \in Ids : c # b => state'[c] = state[c] /\ thread'[c] = thread[c]
      /\ lost \subseteq lost'
    BY DEF Progress, States, Threads
<1>2. thread'[b] \in AtWork =>
          state'[b] \in {"starting", "running", "pending_to_stop", "stopping"}
    BY DEF Progress, WorkingStates, AtWork
<1>3. WorkingStates'
    BY <1>1, <1>2 DEF WorkingStates
<1>4. /\ ~Alive(b) => ~Alive(b)'
      /\ Told(b) => Told(b)' \/ b \in lost'
      /\ Stopping(b) => Stopping(b)' \/ b \in lost'
    BY DEF Progress, Alive, Told, Stopping, AtWork, Threads
<1>5. \A c \in Ids : /\ ~Alive(c) => ~Alive(c)'
                     /\ Told(c) => Told(c)' \/ c \in lost'
                     /\ Stopping(c) => Stopping(c)' \/ c \in lost'
    BY <1>1, <1>4 DEF Alive, Told, Stopping
<1>6. Joined'
    BY <1>1, <1>5 DEF Joined
<1>7. QED BY <1>1, <1>3, <1>6

----------------------------------------------------------------------------
(* Where the executor goes without having stopped the BATs.                *)
Onward ==
    /\ x' \in Executors
    /\ x'.at \notin {"joining", "finish"}
    /\ x'.at = "join" => x'.i = 1 \/ x' = x
    /\ UNCHANGED <<state, thread, lost>>

LEMMA OnwardKeeps ==
    ASSUME IndInv, Onward
    PROVE  IndInv'
<1>1. Data' /\ WorkingStates'
    BY DEF Onward, IndInv, Data, WorkingStates
<1>2. Joined'
  <2>1. CASE x' = x
      BY <2>1 DEF Onward, IndInv, Joined, Told, Stopping, Alive
  <2>2. CASE x' # x
      BY <2>2 DEF Onward, Ids, Joined
  <2>3. QED BY <2>1, <2>2
<1>3. QED BY <1>1, <1>2 DEF IndInv

(* stop_BATs() reaches every thread that has set its first state. *)
LEMMA StopBatsKeeps ==
    ASSUME IndInv, NEW result \in Results, StopBats(result),
           thread' = thread
    PROVE  IndInv'
<1> USE DEF IndInv, Data
<1>1. /\ x' \in Executors /\ x'.at = "joining" /\ x'.i = 1
  <2>1. 1 \in Ids
      BY BatsAssumption DEF Ids
  <2>2. x' = [x EXCEPT !.at = "joining", !.i = 1, !.result = result]
      BY DEF StopBats
  <2>3. QED BY <2>1, <2>2 DEF Executors, Points, Results
<1>2. /\ state' \in [Ids -> States]
      /\ \A b \in Ids : state'[b] = Stop(b)
    BY DEF StopBats, Stop, States
<1>3. WorkingStates'
    BY <1>2 DEF WorkingStates, Stop, AtWork
<1>4. \A b \in Ids \ lost' : Told(b)'
    BY <1>2 DEF StopBats, WorkingStates, Told, Alive, Stop, Threads, AtWork
<1>5. Joined'
    BY <1>1, <1>4 DEF Joined, Ids
<1>6. QED BY <1>1, <1>2, <1>3, <1>5

----------------------------------------------------------------------------
(* Points of the executor other than the two waits for the threads, or the *)
(* beginning of the one for threads that end by themselves.                *)
Quiet(to) ==
    /\ to \in Executors
    /\ to.at \in Points \ {"join", "joining", "finish"} \/ (to.at = "join" /\ to.i = 1)

LEMMA QuietKeeps ==
    ASSUME IndInv, NEW to, Quiet(to), x' = to, UNCHANGED <<state, thread, lost>>
    PROVE  IndInv'
<1>1. Onward
    BY DEF Quiet, Onward
<1>2. QED BY <1>1, OnwardKeeps

LEMMA QuietMoves ==
    ASSUME x \in Executors, NEW i \in Ids, NEW ready \in BOOLEAN,
           NEW at \in Points \ {"join", "joining", "finish"}
    PROVE  /\ Quiet([x EXCEPT !.at = at])
           /\ Quiet([x EXCEPT !.at = at, !.i = i])
           /\ Quiet([x EXCEPT !.at = at, !.i = i, !.ready = ready])
           /\ \A patience \in BOOLEAN :
                  Quiet([x EXCEPT !.at = at, !.i = i, !.ready = ready,
                                  !.patience = patience])
           /\ \A phase \in Phases \cup {"end"} :
                  Quiet([x EXCEPT !.at = at, !.i = i, !.phase = phase])
           /\ Quiet([x EXCEPT !.at = "join", !.i = 1])
<1>1. 1 \in Ids
    BY BatsAssumption DEF Ids
<1>2. "join" \in Points
    BY DEF Points
<1>3. QED BY <1>1, <1>2 DEF Quiet, Executors

LEMMA QuietGiveUp ==
    ASSUME x \in Executors, NEW result \in {"error", "user"}, GiveUp(result)
    PROVE  Quiet(x') /\ UNCHANGED <<state, lost>>
BY DEF GiveUp, Quiet, Executors, Points, Results

LEMMA QuietAdvance ==
    ASSUME x \in Executors, NEW ready \in BOOLEAN, NEW last, Quiet(last),
           NEW first \in Points \ {"join", "joining", "finish"}
    PROVE  Quiet(Advance(first, ready, last))
<1>1. CASE x.i < Bats
  <2>1. x.i \in Ids /\ Bats \in Nat
      BY BatsAssumption DEF Executors
  <2>2. x.i + 1 \in Ids
      BY <1>1, <2>1 DEF Ids
  <2>3. Quiet([x EXCEPT !.at = first, !.i = x.i + 1, !.ready = ready])
      BY <2>2, QuietMoves
  <2>4. QED BY <1>1, <2>3 DEF Advance
<1>2. CASE ~(x.i < Bats)
    BY <1>2 DEF Advance
<1>3. QED BY <1>1, <1>2

LEMMA QuietTargets ==
    ASSUME x \in Executors
    PROVE  /\ Quiet(PhaseOver) /\ Quiet(Started)
           /\ \A ready \in BOOLEAN : Quiet(Round(ready))
<1>1. 1 \in Ids
    BY BatsAssumption DEF Ids
<1>2. Next_(x.phase) \in Phases \cup {"end"}
    BY DEF Next_, Phases
<1>3. {"skip", "phase", "status", "halt"} \subseteq Points \ {"join", "joining", "finish"}
    BY DEF Points
<1>4. Quiet(PhaseOver)
    BY <1>1, <1>2, <1>3, QuietMoves DEF PhaseOver
<1>5. Quiet(Started)
    BY <1>1, <1>3, QuietMoves, QuietAdvance DEF Started
<1>6. ASSUME NEW ready \in BOOLEAN PROVE Quiet(Round(ready))
    BY <1>1, <1>3, <1>4, QuietMoves, QuietAdvance DEF Round
<1>7. QED BY <1>4, <1>5, <1>6

----------------------------------------------------------------------------
(* The steps of the executor: it stays or goes on, stops the BATs, or      *)
(* crashes.                                                                *)
Outcome ==
    /\ thread' = thread
    /\ \/ (x' = x \/ Quiet(x')) /\ UNCHANGED <<state, lost>>
       \/ \E result \in Results : StopBats(result)
       \/ x' = [x EXCEPT !.at = "finish", !.result = "crash"]
          /\ UNCHANGED <<state, lost>>

LEMMA OutcomeKeeps ==
    ASSUME IndInv, Outcome
    PROVE  IndInv'
<1>1. CASE x' = x /\ UNCHANGED <<state, lost>>
    BY <1>1 DEF Outcome, IndInv, Data, WorkingStates, Joined, Told, Stopping, Alive
<1>2. CASE Quiet(x') /\ UNCHANGED <<state, lost>>
    BY <1>2, QuietKeeps DEF Outcome
<1>3. ASSUME NEW result \in Results, StopBats(result)
      PROVE  IndInv'
    BY <1>3, StopBatsKeeps DEF Outcome
<1>4. CASE x' = [x EXCEPT !.at = "finish", !.result = "crash"]
           /\ UNCHANGED <<state, lost>>
  <2>1. x' \in Executors /\ x'.at = "finish" /\ x'.result = "crash"
      BY <1>4 DEF IndInv, Data, Executors, Points, Results
  <2>2. QED BY <1>4, <2>1 DEF Outcome, IndInv, Data, WorkingStates, Joined
<1>5. QED BY <1>1, <1>2, <1>3, <1>4 DEF Outcome

LEMMA RequestOutcome ==
    ASSUME x \in Executors, NEW cmd, Release \/ Request(cmd), Unchanged
    PROVE  Outcome
<1>1. thread' = thread
    BY DEF Unchanged
<1>2. CASE Release
    BY <1>1, <1>2, QuietGiveUp DEF Release, Outcome
<1>3. CASE Crash
    BY <1>1, <1>3 DEF Crash, Outcome, history
<1>4. CASE UNCHANGED <<x, state, history>>
    BY <1>1, <1>4 DEF Outcome, history
<1>5. QED BY <1>2, <1>3, <1>4 DEF Request

LEMMA AskOutcome ==
    ASSUME x \in Executors, AskPhase \/ AskStart \/ AskStatus \/ AskStop
    PROVE  Outcome
<1>1. \E cmd : (Release \/ Request(cmd)) /\ Unchanged
    BY DEF AskPhase, AskStart, AskStatus, AskStop, Ask
<1>2. QED BY <1>1, RequestOutcome

LEMMA ContinueOutcome ==
    ASSUME x \in Executors, NEW to, Quiet(to), Continue(to) \/ Fail, Unchanged
    PROVE  Outcome
BY QuietGiveUp DEF Continue, Fail, Unchanged, Outcome

LEMMA AnswerOutcome ==
    ASSUME x \in Executors,
           GotPhase \/ GotStart \/ GotStatus \/ GotWhere \/ GotStop \/ GotStopped
    PROVE  Outcome
<1>1. /\ Quiet(PhaseOver) /\ Quiet(Started)
      /\ \A ready \in BOOLEAN : Quiet(Round(ready))
    BY QuietTargets
<1>2. 1 \in Ids /\ x.i \in Ids
  <2>1. 1 \in Ids
      BY BatsAssumption DEF Ids
  <2>2. x.i \in Ids
      BY DEF Executors
  <2>3. QED BY <2>1, <2>2
<1>3. {"go", "where", "halt", "halted"} \subseteq Points \ {"join", "joining", "finish"}
    BY DEF Points
<1>4. CASE GotPhase
  <2>1. Unchanged /\ \/ Continue([x EXCEPT !.at = "go"]) \/ Continue(Started)
      BY <1>4 DEF GotPhase
  <2>2. Quiet([x EXCEPT !.at = "go"])
      BY <1>2, <1>3, QuietMoves
  <2>3. QED BY <1>1, <2>1, <2>2, ContinueOutcome
<1>5. CASE GotStart
  <2>1. Unchanged /\ (Continue(Started) \/ Fail)
      BY <1>5 DEF GotStart
  <2>2. QED BY <1>1, <2>1, ContinueOutcome
<1>6. CASE GotStatus
  <2> DEFINE ready == x.ready /\ ~x.patience
  <2>1. Unchanged /\ (Continue(Round(ready)) \/ Continue([x EXCEPT !.at = "where"]) \/ Fail)
      BY <1>6 DEF GotStatus
  <2>2. Quiet([x EXCEPT !.at = "where"])
      BY <1>2, <1>3, QuietMoves
  <2>3. ready \in BOOLEAN
      OBVIOUS
  <2> HIDE DEF ready
  <2>4. QED BY <1>1, <2>1, <2>2, <2>3, ContinueOutcome
<1>7. CASE GotWhere
  <2>1. PICK v \in Values : Continue(Round(x.ready /\ v = <<Next_(x.phase), TRUE>>))
      BY <1>7 DEF GotWhere
  <2> DEFINE ready == x.ready /\ v = <<Next_(x.phase), TRUE>>
  <2>2. ready \in BOOLEAN
      OBVIOUS
  <2> HIDE DEF ready
  <2>3. Continue(Round(ready)) /\ Unchanged
      BY <1>7, <2>1 DEF ready, GotWhere
  <2>4. QED BY <1>1, <2>2, <2>3, ContinueOutcome
<1>8. CASE GotStop
  <2> DEFINE to == Advance("halt", TRUE, [x EXCEPT !.at = "halted", !.i = 1, !.ready = TRUE])
  <2>1. Unchanged /\ (Continue(to) \/ Fail)
      BY <1>8 DEF GotStop
  <2>2. Quiet([x EXCEPT !.at = "halted", !.i = 1, !.ready = TRUE])
      BY <1>2, <1>3, QuietMoves
  <2>3. Quiet(to)
      BY <1>3, <2>2, QuietAdvance
  <2> HIDE DEF to
  <2>4. QED BY <2>1, <2>3, ContinueOutcome
<1>9. CASE GotStopped
  <2>1. PICK v \in Values :
            LET ready == x.ready /\ v[1] = "Stopped" IN
            IF v = None THEN Fail
            ELSE Continue(Advance("halted", ready, IF ready THEN PhaseOver
                              ELSE [x EXCEPT !.i = 1, !.ready = TRUE]))
      BY <1>9 DEF GotStopped
  <2> DEFINE ready == x.ready /\ v[1] = "Stopped"
             again == [x EXCEPT !.i = 1, !.ready = TRUE]
  <2>2. ready \in BOOLEAN
      OBVIOUS
  <2>3. Quiet(again)
    <3>1. again = [x EXCEPT !.at = "halted", !.i = 1, !.ready = TRUE]
        BY <1>9 DEF GotStopped, Executors
    <3>2. QED BY <1>2, <1>3, <3>1, QuietMoves
  <2>4. Fail \/ Continue(Advance("halted", ready, IF ready THEN PhaseOver ELSE again))
      BY <2>1
  <2> HIDE DEF ready, again
  <2>5. Quiet(Advance("halted", ready, IF ready THEN PhaseOver ELSE again))
      BY <1>1, <1>3, <2>2, <2>3, QuietAdvance
  <2>6. Unchanged
      BY <1>9 DEF GotStopped
  <2>7. QED BY <2>4, <2>5, <2>6, ContinueOutcome
<1>10. QED BY <1>4, <1>5, <1>6, <1>7, <1>8, <1>9

LEMMA OtherOutcome ==
    ASSUME x \in Executors,
           \/ Ready \/ SkipPostexec \/ Shut \/ ShutFails \/ RequestStop
           \/ UserStops \/ UserStopsAgain \/ UserEndsLoadgen \/ CtrlCSwallowed
    PROVE  Outcome
<1>1. 1 \in Ids
    BY BatsAssumption DEF Ids
<1>2. {"phase", "halt", "status", "stuck", "shut"} \subseteq Points \ {"join", "joining", "finish"}
    BY DEF Points
<1>3. CASE Ready
  <2>1. Quiet([x EXCEPT !.at = "phase", !.i = 1])
      BY <1>1, <1>2, QuietMoves
  <2>2. QED BY <1>3, <2>1, QuietGiveUp DEF Ready, Release, Go, Unchanged, Outcome, history
<1>4. CASE SkipPostexec \/ UserStops \/ UserStopsAgain
    BY <1>4, QuietGiveUp DEF SkipPostexec, UserStops, UserStopsAgain, Unchanged, Outcome, history, Results
<1>5. CASE RequestStop
    BY <1>5 DEF RequestStop, Outcome, bat, history
<1>6. CASE UserEndsLoadgen
  <2>1. Quiet([x EXCEPT !.at = "halt", !.i = 1])
      BY <1>1, <1>2, QuietMoves
  <2>2. QED BY <1>6, <2>1 DEF UserEndsLoadgen, Interrupted, Unchanged, Outcome
<1>7. CASE CtrlCSwallowed
  <2>1. Quiet([x EXCEPT !.at = "status", !.i = 1, !.ready = TRUE]) /\ Quiet(PhaseOver)
      BY <1>1, <1>2, QuietMoves, QuietTargets
  <2>2. Quiet(x')
      BY <1>7, <2>1 DEF CtrlCSwallowed
  <2>3. QED BY <1>7, <2>2 DEF CtrlCSwallowed, Interrupted, Unchanged, Outcome
<1>8. CASE Shut
    BY <1>8 DEF Shut, Unchanged, Outcome, Executors
<1>9. CASE ShutFails
  <2>1. Quiet([x EXCEPT !.at = "stuck"])
      BY <1>1, <1>2, QuietMoves
  <2>2. Quiet([x EXCEPT !.at = "shut", !.result = "error"])
      BY DEF Quiet, Executors, Results, Points
  <2>3. QED BY <1>9, <2>1, <2>2 DEF ShutFails, Unchanged, Outcome
<1>10. QED BY <1>3, <1>4, <1>5, <1>6, <1>7, <1>8, <1>9

LEMMA StartBatKeeps ==
    ASSUME IndInv, StartBat
    PROVE  IndInv'
<1>1. x \in Executors /\ 1 \in Ids
    BY BatsAssumption DEF IndInv, Data, Ids
<1>2. {"start", "ready"} \subseteq Points \ {"join", "joining", "finish"}
    BY DEF Points
<1>3. Quiet([x EXCEPT !.at = "ready", !.i = 1])
    BY <1>1, <1>2, QuietMoves
<1>4. Quiet(x')
    BY <1>1, <1>2, <1>3, QuietAdvance DEF StartBat
<1>5. Joined'
    BY <1>4 DEF Quiet, Joined, Ids
<1>6. state' = state /\ thread' = [thread EXCEPT ![x.i] = "begin"]
    BY DEF StartBat
<1>7. Data' /\ WorkingStates'
    BY <1>4, <1>6 DEF IndInv, Data, WorkingStates, AtWork, Threads, Quiet
<1>8. QED BY <1>5, <1>7 DEF IndInv

(* A thread that is waited for is passed when it is over, or stopping.     *)
LEMMA JoinKeeps ==
    ASSUME IndInv, Join
    PROVE  IndInv'
<1> DEFINE over == [x EXCEPT !.at = "finish", !.result = IF @ = "" THEN "ok" ELSE @]
<1>1. /\ x \in Executors /\ x.at \in {"join", "joining"} /\ x.i \in Ids
      /\ UNCHANGED <<state, thread, lost>>
    BY DEF IndInv, Data, Join, Unchanged, history, Executors
<1>2. x' = IF x.i < Bats
           THEN [x EXCEPT !.at = x.at, !.i = x.i + 1, !.ready = TRUE] ELSE over
    BY DEF Join, Advance
<1>3. ~Alive(x.i) \/ (/\ x.at = "joining" /\ thread[x.i] = "loop"
                      /\ state[x.i] # "pending_to_stop")
    BY DEF Join
<1>4. Bats \in Nat /\ \A b \in Ids : b \in Nat /\ b <= Bats
    BY BatsAssumption DEF Ids
<1>5. x.at = "joining" => x.i \in lost \/ Stopping(x.i)
    BY <1>1, <1>3 DEF IndInv, Joined, Told, Stopping
<1>6. CASE x.i < Bats
  <2>1. x.i + 1 \in Ids
      BY <1>1, <1>4, <1>6 DEF Ids
  <2>2. x' \in Executors /\ x'.at = x.at /\ x'.i = x.i + 1
      BY <1>1, <1>2, <1>6, <2>1 DEF Executors
  <2>3. \A b \in Ids : b < x'.i => b < x.i \/ b = x.i
      BY <1>1, <1>4, <2>2
  <2>4. CASE x.at = "joining"
    <3>1. \A b \in Ids \ lost : Told(b) /\ (b < x'.i => Stopping(b))
        BY <1>5, <2>3, <2>4 DEF IndInv, Joined
    <3>2. \A b \in Ids \ lost' : Told(b)' /\ (b < x'.i => Stopping(b)')
        BY <1>1, <3>1 DEF Told, Stopping, Alive
    <3>3. Joined'
        BY <2>2, <2>4, <3>2 DEF Joined
    <3>4. QED BY <1>1, <2>2, <3>3 DEF IndInv, Data, WorkingStates
  <2>5. CASE x.at = "join"
    <3>1. \A b \in Ids : b < x'.i => ~Alive(b)
        BY <1>3, <2>3, <2>5 DEF IndInv, Joined
    <3>2. \A b \in Ids : b < x'.i => ~Alive(b)'
        BY <1>1, <3>1 DEF Alive
    <3>3. Joined'
        BY <2>2, <2>5, <3>2 DEF Joined
    <3>4. QED BY <1>1, <2>2, <3>3 DEF IndInv, Data, WorkingStates
  <2>6. QED BY <1>1, <2>4, <2>5
<1>7. CASE ~(x.i < Bats)
  <2>1. x' \in Executors /\ x'.at = "finish"
      BY <1>1, <1>2, <1>7 DEF Executors, Points, Results
  <2>2. \A b \in Ids : b < x.i \/ b = x.i
      BY <1>1, <1>4, <1>7
  <2>3. \A b \in Ids \ lost : Stopping(b)
      BY <1>1, <1>3, <1>5, <2>2 DEF IndInv, Joined, Stopping
  <2>4. \A b \in Ids \ lost' : Stopping(b)'
      BY <1>1, <2>3 DEF Stopping, Alive
  <2>5. Joined'
      BY <2>1, <2>4 DEF Joined
  <2>6. QED BY <1>1, <2>1, <2>5 DEF IndInv, Data, WorkingStates
<1>8. QED BY <1>6, <1>7

LEMMA FinishKeeps ==
    ASSUME IndInv, Finish
    PROVE  IndInv'
<1>1. x' = [x EXCEPT !.at = "done"] /\ UNCHANGED <<state, thread, lost>>
    BY DEF Finish, history
<1>2. x' \in Executors /\ x'.at = "done"
    BY <1>1 DEF IndInv, Data, Executors, Points, Results
<1>3. QED BY <1>1, <1>2 DEF IndInv, Data, WorkingStates, Joined

LEMMA StepKeeps == IndInv /\ [Next]_vars => IndInv'
<1> SUFFICES ASSUME IndInv, [Next]_vars PROVE IndInv'
    OBVIOUS
<1>1. x \in Executors
    BY DEF IndInv, Data
<1>2. CASE StartBat
    BY <1>2, StartBatKeeps
<1>3. CASE Join
    BY <1>3, JoinKeeps
<1>4. CASE Finish
    BY <1>4, FinishKeeps
<1>5. CASE AskPhase \/ AskStart \/ AskStatus \/ AskStop
    BY <1>1, <1>5, AskOutcome, OutcomeKeeps
<1>6. CASE GotPhase \/ GotStart \/ GotStatus \/ GotWhere \/ GotStop \/ GotStopped
    BY <1>1, <1>6, AnswerOutcome, OutcomeKeeps
<1>7. CASE \/ Ready \/ SkipPostexec \/ Shut \/ ShutFails \/ RequestStop
           \/ UserStops \/ UserStopsAgain \/ UserEndsLoadgen \/ CtrlCSwallowed
    BY <1>1, <1>7, OtherOutcome, OutcomeKeeps
<1>8. ASSUME NEW b \in Ids, OfBat(b) PROVE IndInv'
    BY <1>8, BatProgress, ProgressKeeps DEF IndInv
<1>9. CASE UNCHANGED vars
    BY <1>9 DEF vars, executor, bat, history, IndInv, Data, WorkingStates, Joined,
           Told, Stopping, Alive
<1>10. QED BY <1>2, <1>3, <1>4, <1>5, <1>6, <1>7, <1>8, <1>9
           DEF Next, ExecutorStep, OfBat

(* Executor and BAT threads are always as IndInv says, whatever ends them. *)
THEOREM IndInvHolds == Spec => []IndInv
<1>1. Init => IndInv
  <2> SUFFICES ASSUME Init PROVE IndInv
      OBVIOUS
  <2>1. 1 \in Ids
      BY BatsAssumption DEF Ids
  <2>2. x \in Executors /\ x.at = "start"
      BY <2>1 DEF Init, Executors, Points, Phases, Results
  <2>3. /\ state \in [Ids -> States] /\ thread \in [Ids -> Threads]
        /\ \A b \in Ids : thread[b] = "new"
      BY DEF Init, States, Threads
  <2>4. QED BY <2>2, <2>3 DEF IndInv, Data, WorkingStates, Joined, AtWork
<1>2. QED BY <1>1, StepKeeps, PTL DEF Spec

(* For any number of BAT instances: an execution that reaches stop_BATs()  *)
(* ends with every BAT over or stopping, but those that missed their stop: *)
(* stop() reaches every thread that has set its first state, and the loop  *)
(* that waits for the threads passes none that is still to stop.           *)
THEOREM TrafficIsStopped == Spec => []TrafficStopped
<1>1. IndInv => TrafficStopped
    BY DEF IndInv, Joined, TrafficStopped, Stopping
<1>2. QED BY <1>1, IndInvHolds, PTL
----------------------------------------------------------------------------
(* The phases of the generators.  At most one request is under way while   *)
(* no answer has been late, so an answer is of the BAT and the command it  *)
(* was asked of.                                                           *)
Ended == {"shut", "stuck", "joining", "finish", "done"}
Asking == {"phase", "go", "status", "where", "halt", "halted"}
Commands == {"phase", "start", "status", "stop"}

(* the request made at each point *)
Command(at) ==
    IF at \in {"phase", "where"} THEN "phase" ELSE IF at = "go" THEN "start"
    ELSE IF at = "halt" THEN "stop" ELSE "status"

Wires ==
    /\ client \in [Ids -> {"none", "connecting", "online", "closed"}]
    /\ requests \in [Ids -> Seq(Commands)] /\ answers \in Seq(Values)
    /\ titan \in [Ids -> Phases \cup {"end"}]
    /\ runs \in [Ids -> {"idle", "running", "stopped"}]
    /\ ask \in BOOLEAN /\ late \in BOOLEAN /\ hasty \in BOOLEAN

(* A thread has no client before its alias is sent. *)
Unborn(b) ==
    /\ thread[b] \in {"new", "begin"} => client[b] = "none"
    /\ thread[b] = "loop" /\ state[b] = "starting" => client[b] = "none"

Clients ==
    /\ \A b \in Ids : Unborn(b)
    /\ x.at = "start" => \A b \in Ids : x.i <= b => thread[b] = "new"
    /\ x.at \notin Ended \cup {"start", "ready"} =>
           \A b \in Ids : client[b] \in {"online", "closed"}

(* No request of b can still be served. *)
Free(b) == client[b] = "closed" \/ requests[b] = <<>>

OneRequest ==
    /\ ask => x.at \in Asking
    /\ ~late /\ ~ask /\ x.at \notin Ended => answers = <<>> /\ \A b \in Ids : Free(b)
    /\ ~late /\ ask =>
           /\ \A b \in Ids \ {x.i} : Free(b)
           /\ \/ Free(x.i) /\ (answers = <<>> \/ \E v \in Values : answers = <<v>>)
              \/ answers = <<>> /\ requests[x.i] = <<Command(x.at)>>

(* the answer that waits in the queue still holds of its BAT *)
AnswerHolds ==
    ~late /\ ask /\ answers # <<>> =>
        /\ x.at = "status" /\ Head(answers)[1] = "Stopped" => runs[x.i] # "running"
        /\ x.at = "where" /\ Head(answers)[2] => runs[x.i] # "running"

(* the BATs a round found at rest are at rest *)
RoundHolds ==
    ~late /\ x.at \in {"status", "where"} /\ x.ready /\ x.phase = "preexec" =>
        \A b \in Ids : b < x.i => runs[b] # "running"

PhaseHolds ==
    /\ x.at \in {"halt", "halted", "skip"} => x.phase # "preexec"
    /\ x.phase = "preexec" => \A b \in Ids : runs[b] = "running" => titan[b] = "preexec"
    /\ ~late /\ ~hasty /\ x.phase # "preexec" =>
           \A b \in Ids : runs[b] = "running" => titan[b] # "preexec"

PhaseInv == Wires /\ Clients /\ OneRequest /\ AnswerHolds /\ RoundHolds /\ PhaseHolds

----------------------------------------------------------------------------
(* The threads of the BATs and what becomes of their clients. *)
LEMMA BatEffect ==
    ASSUME Data, Wires, NEW b \in Ids, Unborn(b),
           BatStep(b) \/ StartExpires(b) \/ StopExpires(b) \/ EndOfFile(b)
           \/ Connect(b) \/ OwnerGone(b)
    PROVE  /\ UNCHANGED <<x, ask, requests, answers, titan, runs, late, hasty>>
           /\ client' \in [Ids -> {"none", "connecting", "online", "closed"}]
           /\ \A c \in Ids \ {b} : client'[c] = client[c] /\ thread'[c] = thread[c]
                                   /\ state'[c] = state[c]
           /\ Unborn(b)' /\ (thread[b] = "new" => thread'[b] = "new")
           /\ client[b] = "closed" => client'[b] = "closed"
           /\ client[b] = "online" => client'[b] \in {"online", "closed"}
<1> USE DEF Data, Wires, Unborn, executor, queues, bat, generator, history
<1>1. CASE BatStarts(b) \/ AliasSent(b) \/ Aliased(b)
    BY <1>1 DEF BatStarts, AliasSent, Aliased
<1>2. CASE BatStops(b) \/ StartExpires(b) \/ TrafficFinished(b)
    BY <1>2 DEF BatStops, StopTraffic, StartExpires, TrafficFinished, Fault
<1>3. CASE BatPrompt(b)
    BY <1>3 DEF BatPrompt, BatEnds
<1>4. CASE StopExpires(b) \/ EndOfFile(b) \/ Forced(b)
    BY <1>4 DEF StopExpires, EndOfFile, BatEnds, Forced, Fault
<1>5. CASE Connect(b) \/ OwnerGone(b)
    BY <1>5 DEF Connect, OwnerGone, Online, Fault
<1>6. QED BY <1>1, <1>2, <1>3, <1>4, <1>5 DEF BatStep

LEMMA BatKeepsPhase ==
    ASSUME Data, PhaseInv, NEW b \in Ids,
           BatStep(b) \/ StartExpires(b) \/ StopExpires(b) \/ EndOfFile(b)
           \/ Connect(b) \/ OwnerGone(b)
    PROVE  PhaseInv'
<1>1. Wires /\ Clients /\ Unborn(b)
    BY DEF PhaseInv, Clients
<1>2. /\ UNCHANGED <<x, ask, requests, answers, titan, runs, late, hasty>>
      /\ client' \in [Ids -> {"none", "connecting", "online", "closed"}]
      /\ \A c \in Ids \ {b} : client'[c] = client[c] /\ thread'[c] = thread[c]
                              /\ state'[c] = state[c]
      /\ Unborn(b)' /\ (thread[b] = "new" => thread'[b] = "new")
      /\ client[b] = "closed" => client'[b] = "closed"
      /\ client[b] = "online" => client'[b] \in {"online", "closed"}
    BY <1>1, BatEffect
<1>3. \A c \in Ids : Free(c) => Free(c)'
    BY <1>2 DEF Free
<1>4. Wires'
    BY <1>1, <1>2 DEF Wires
<1>5. Clients'
    BY <1>1, <1>2 DEF Clients, Unborn
<1>6. x.i \in Ids
    BY DEF Data, Executors
<1>7. OneRequest'
    BY <1>2, <1>3, <1>6 DEF PhaseInv, OneRequest
<1>8. AnswerHolds' /\ RoundHolds' /\ PhaseHolds'
    BY <1>2 DEF PhaseInv, AnswerHolds, RoundHolds, PhaseHolds
<1>9. QED BY <1>4, <1>5, <1>7, <1>8 DEF PhaseInv

(* A generator comes to rest by itself and never starts by itself. *)
LEMMA GeneratorKeepsPhase ==
    ASSUME Data, PhaseInv, NEW b \in Ids,
           GeneratorStep(b) \/ ScenariosStop(b) \/ ProcessDies(b)
    PROVE  PhaseInv'
<1>1. UNCHANGED <<x, ask, requests, answers, client, thread, state, late, hasty>>
    BY DEF GeneratorStep, PhaseFinishes, ProcessEnds, ScenariosStop, ProcessDies,
           executor, queues, bat, history
<1>2. /\ titan' \in [Ids -> Phases \cup {"end"}]
      /\ runs' \in [Ids -> {"idle", "running", "stopped"}]
      /\ \A c \in Ids : runs'[c] = "running" => runs[c] = "running" /\ titan'[c] = titan[c]
    BY DEF PhaseInv, Wires, GeneratorStep, PhaseFinishes, ProcessEnds, ScenariosStop,
           ProcessDies, Next_, Phases
<1>3. x.i \in Ids
    BY DEF Data, Executors
<1>4. Wires' /\ Clients' /\ OneRequest'
    BY <1>1, <1>2 DEF PhaseInv, Wires, Clients, Unborn, OneRequest, Free
<1>5. AnswerHolds' /\ RoundHolds' /\ PhaseHolds'
    BY <1>1, <1>2, <1>3 DEF PhaseInv, AnswerHolds, RoundHolds, PhaseHolds
<1>6. QED BY <1>4, <1>5 DEF PhaseInv

----------------------------------------------------------------------------
LEMMA SingleSeq ==
    ASSUME NEW S, NEW v \in S
    PROVE  /\ Append(<<>>, v) = <<v>> /\ <<v>> # <<>> /\ Head(<<v>>) = v
           /\ Tail(<<v>>) = <<>> /\ <<v>> \in Seq(S) /\ <<>> \in Seq(S)
OBVIOUS

(* Who serves a request, and of whom. *)
LEMMA ServedIsAsked ==
    ASSUME Data, PhaseInv, NEW b \in Ids, Online(b), requests[b] # <<>>,
           ~late, x.at \notin Ended
    PROVE  ask /\ b = x.i /\ answers = <<>> /\ requests[b] = <<Command(x.at)>>
<1>1. ~Free(b)
    BY DEF Online, Free
<1>2. QED BY <1>1 DEF PhaseInv, OneRequest

LEMMA ServeKeepsPhase ==
    ASSUME Data, PhaseInv, NEW b \in Ids, Serve(b)
    PROVE  PhaseInv'
<1> DEFINE cmd == Head(requests[b])
<1>1. PICK v \in {Answer(b, cmd), False} :
          /\ answers' = Append(answers, v)
          /\ v = Answer(b, cmd) \/ cmd \in {"start", "stop"}
    BY DEF Serve
<1>2. /\ Wires /\ UNCHANGED <<x, ask, client, thread, state, late, hasty>>
      /\ Online(b) /\ requests[b] # <<>>
      /\ requests' = [requests EXCEPT ![b] = Tail(@)]
    BY DEF PhaseInv, Serve, executor, bat
<1>3. x.i \in Ids /\ x.phase \in Phases \cup {"end"}
    BY DEF Data, Executors
<1>4. \/ UNCHANGED <<runs, titan>>
      \/ /\ runs' = [runs EXCEPT ![b] = CASE cmd = "start" -> "running"
                                          [] cmd = "stop" -> "stopped"
                                          [] OTHER -> @]
         /\ titan' = [titan EXCEPT ![b] = IF cmd = "start" THEN x.phase ELSE @]
    BY DEF Serve, Does
<1>5. /\ titan' \in [Ids -> Phases \cup {"end"}]
      /\ runs' \in [Ids -> {"idle", "running", "stopped"}]
      /\ \A c \in Ids \ {b} : runs'[c] = runs[c] /\ titan'[c] = titan[c]
      /\ runs'[b] = "running" => \/ cmd = "start" /\ titan'[b] = x.phase
                                 \/ runs[b] = "running" /\ titan'[b] = titan[b]
      /\ cmd \notin {"start", "stop"} => runs'[b] = runs[b]
    BY <1>2, <1>3, <1>4 DEF Wires
<1>6. v \in Values
  <2>1. Answer(b, cmd) \in Values
      BY <1>2 DEF Answer, Values, True, Wires
  <2>2. False \in Values
      BY DEF Values, False
  <2>3. QED BY <1>1, <2>1, <2>2
<1>7. requests[b] \in Seq(Commands)
    BY <1>2 DEF Wires
<1>8. Tail(requests[b]) \in Seq(Commands)
    BY <1>2, <1>7
<1>9. /\ requests' \in [Ids -> Seq(Commands)] /\ answers' \in Seq(Values)
      /\ requests'[b] = Tail(requests[b])
      /\ \A c \in Ids \ {b} : requests'[c] = requests[c]
    BY <1>1, <1>2, <1>6, <1>7 DEF Wires
<1>10. Wires' /\ Clients'
    BY <1>1, <1>2, <1>5, <1>9 DEF PhaseInv, Wires, Clients, Unborn
<1>11. PhaseHolds'
    BY <1>1, <1>2, <1>5 DEF PhaseInv, PhaseHolds
<1>12. CASE late \/ x.at \in Ended
  <2>1. ~ask \/ late
      BY <1>12 DEF PhaseInv, OneRequest, Ended, Asking
  <2>2. OneRequest'
      BY <1>1, <1>2, <1>12, <2>1 DEF PhaseInv, OneRequest
  <2>3. AnswerHolds' /\ RoundHolds'
      BY <1>1, <1>2, <1>12, <2>1 DEF AnswerHolds, RoundHolds, Ended
  <2>4. QED BY <1>10, <1>11, <2>2, <2>3 DEF PhaseInv
<1>13. CASE ~late /\ x.at \notin Ended
  <2>1. ask /\ b = x.i /\ answers = <<>> /\ requests[b] = <<Command(x.at)>>
      BY <1>1, <1>2, <1>13, ServedIsAsked
  <2>2. Command(x.at) \in Commands
      BY DEF Command, Commands
  <2>3. cmd = Command(x.at) /\ Tail(requests[b]) = <<>>
      BY <2>1, <2>2, SingleSeq
  <2>4. answers' = <<v>> /\ Head(answers') = v
      BY <1>1, <1>2, <1>6, <2>1, SingleSeq
  <2>5. Free(b)' /\ \A c \in Ids \ {b} : Free(c) => Free(c)'
      BY <1>1, <1>2, <1>9, <2>3 DEF Free
  <2>6. OneRequest'
      BY <1>1, <1>2, <1>6, <2>1, <2>4, <2>5 DEF PhaseInv, OneRequest
  <2>7. x.at = "status" => cmd = "status"
      BY <2>3 DEF Command
  <2>8. x.at = "where" => cmd = "phase"
      BY <2>3 DEF Command
  <2> HIDE DEF cmd
  <2>9. AnswerHolds'
    <3>1. x.at = "status" /\ v[1] = "Stopped" => runs'[b] # "running"
        BY <1>1, <1>5, <2>7 DEF Answer
    <3>2. x.at = "where" /\ v[2] => runs'[b] # "running"
      <4>1. x.at = "where" => v = Answer(b, cmd)
          BY <1>1, <2>8
      <4>2. x.at = "where" /\ Answer(b, cmd)[2] => runs'[b] # "running"
          BY <1>5, <2>8 DEF Answer
      <4>3. QED BY <4>1, <4>2
    <3>3. QED BY <1>1, <1>2, <2>1, <2>4, <3>1, <3>2 DEF AnswerHolds
  <2>10. RoundHolds'
      BY <1>1, <1>2, <1>5, <2>7, <2>8 DEF PhaseInv, RoundHolds
  <2>11. QED BY <1>10, <1>11, <2>6, <2>9, <2>10 DEF PhaseInv
<1>14. QED BY <1>12, <1>13

LEMMA ServeFailsKeepsPhase ==
    ASSUME Data, PhaseInv, NEW b \in Ids, ServeFails(b)
    PROVE  PhaseInv'
<1>1. /\ Wires /\ UNCHANGED <<x, ask, thread, state, titan, runs, late, hasty>>
      /\ Online(b) /\ requests[b] # <<>>
      /\ client' = [client EXCEPT ![b] = "closed"]
      /\ answers' = Append(answers, None) \/ answers' = answers
      /\ requests' = [requests EXCEPT ![b] = Tail(@)]
    BY DEF PhaseInv, ServeFails, executor, generator
<1>2. None \in Values /\ None[1] # "Stopped" /\ ~None[2]
    BY DEF None, Values
<1>3. Tail(requests[b]) \in Seq(Commands)
    BY <1>1 DEF Wires
<1>4. /\ requests' \in [Ids -> Seq(Commands)] /\ answers' \in Seq(Values)
      /\ \A c \in Ids \ {b} : requests'[c] = requests[c] /\ client'[c] = client[c]
      /\ client' \in [Ids -> {"none", "connecting", "online", "closed"}]
      /\ client'[b] = "closed" /\ client[b] = "online"
  <2>1. answers' \in Seq(Values)
    <3>1. answers \in Seq(Values)
        BY <1>1 DEF Wires
    <3>2. Append(answers, None) \in Seq(Values)
        BY <1>2, <3>1
    <3>3. QED BY <1>1, <3>1, <3>2
  <2>2. /\ requests' \in [Ids -> Seq(Commands)]
        /\ \A c \in Ids \ {b} : requests'[c] = requests[c]
      BY <1>1, <1>3 DEF Wires
  <2>3. /\ client' \in [Ids -> {"none", "connecting", "online", "closed"}]
        /\ client'[b] = "closed" /\ client[b] = "online"
        /\ \A c \in Ids \ {b} : client'[c] = client[c]
      BY <1>1 DEF Wires, Online
  <2>4. QED BY <2>1, <2>2, <2>3
<1>5. Wires' /\ Clients'
    BY <1>1, <1>4 DEF PhaseInv, Wires, Clients, Unborn
<1>6. PhaseHolds' /\ RoundHolds'
    BY <1>1 DEF PhaseInv, PhaseHolds, RoundHolds
<1>7. x.i \in Ids /\ Free(b)' /\ \A c \in Ids : Free(c) => Free(c)'
    BY <1>4 DEF Data, Executors, Free
<1>8. CASE late \/ x.at \in Ended
  <2>1. ~ask \/ late
      BY <1>8 DEF PhaseInv, OneRequest, Ended, Asking
  <2>2. OneRequest' /\ AnswerHolds'
      BY <1>1, <1>8, <2>1 DEF PhaseInv, OneRequest, AnswerHolds
  <2>3. QED BY <1>5, <1>6, <2>2 DEF PhaseInv
<1>9. CASE ~late /\ x.at \notin Ended
  <2>1. ask /\ b = x.i /\ answers = <<>>
      BY <1>1, <1>9, ServedIsAsked
  <2>2. answers' = <<>> \/ (answers' = <<None>> /\ Head(answers') = None)
      BY <1>1, <1>2, <2>1, SingleSeq
  <2>3. OneRequest'
      BY <1>1, <1>2, <1>7, <2>1, <2>2 DEF PhaseInv, OneRequest
  <2>4. AnswerHolds'
      BY <1>1, <1>2, <2>2 DEF AnswerHolds
  <2>5. QED BY <1>5, <1>6, <2>3, <2>4 DEF PhaseInv
<1>10. QED BY <1>8, <1>9

----------------------------------------------------------------------------
(* The executor has given up: only the phase it was in counts. *)
LEMMA EndKeepsPhase ==
    ASSUME Data, Data', PhaseInv, Wires', x'.at \in Ended, x'.phase = x.phase, ask' = FALSE,
           UNCHANGED <<thread, client, titan, runs>>, late => late', hasty => hasty',
           \A b \in Ids : state'[b] = "starting" => state[b] = "starting"
    PROVE  PhaseInv'
<1>1. Clients'
    BY DEF PhaseInv, Clients, Unborn, Ended
<1>2. OneRequest' /\ AnswerHolds' /\ RoundHolds'
    BY DEF OneRequest, AnswerHolds, RoundHolds, Ended
<1>3. PhaseHolds'
    BY DEF PhaseInv, PhaseHolds, Ended
<1>4. QED BY <1>1, <1>2, <1>3 DEF PhaseInv

LEMMA StopBatsEnds ==
    ASSUME Data, NEW result, StopBats(result) \/ GiveUp(result)
    PROVE  /\ x'.at \in Ended /\ x'.phase = x.phase /\ ask' = FALSE
           /\ \A b \in Ids : state'[b] = "starting" => state[b] = "starting"
BY DEF Data, StopBats, GiveUp, Executors, Ended, Stop

(* The executor goes on with no request under way. *)
LEMMA MoveKeepsPhase ==
    ASSUME Data, Data', PhaseInv, Wires', ask' = FALSE, late => late', hasty => hasty',
           UNCHANGED <<thread, state, client, titan, runs>>, x.at \notin Ended \cup {"start"},
           x'.at # "start",
           x.at = "ready" => x'.at = "ready" \/ \A b \in Ids : Online(b),
           ~late' => answers' = <<>> /\ \A b \in Ids : Free(b)',
           x'.at \in {"halt", "halted", "skip"} => x'.phase # "preexec",
           \/ x'.phase = x.phase
           \/ x.phase # "preexec" /\ x'.phase # "preexec"
           \/ x'.phase # "preexec" /\ (late' \/ hasty' \/ \A b \in Ids : runs[b] # "running"),
           RoundHolds'
    PROVE  PhaseInv'
<1>1. Clients'
    BY DEF PhaseInv, Clients, Unborn, Online
<1>2. OneRequest' /\ AnswerHolds'
    BY DEF OneRequest, AnswerHolds
<1>3. PhaseHolds'
    BY DEF PhaseInv, PhaseHolds
<1>4. QED BY <1>1, <1>2, <1>3 DEF PhaseInv

(* The answer is of the BAT that was asked, or there is none, as long as   *)
(* none has been late.                                                     *)
LEMMA GotOwnAnswer ==
    ASSUME Data, PhaseInv, NEW v \in Values, Got(v), client' = client
    PROVE  /\ late => late'
           /\ late' \in BOOLEAN /\ hasty' = hasty
           /\ requests' \in [Ids -> Seq(Commands)] /\ answers' \in Seq(Values)
           /\ x.at \in Asking
           /\ ~late' => /\ answers' = <<>> /\ \A b \in Ids : Free(b)'
                        /\ v = None \/ (answers # <<>> /\ v = Head(answers))
<1>1. /\ Wires /\ ask /\ x.at \in Asking /\ x.i \in Ids
      /\ \A b \in Ids : client[b] \in {"online", "closed"}
      /\ hasty' = hasty
    BY DEF PhaseInv, Got, OneRequest, Clients, Asking, Ended, Data, Executors
<1>2. CASE answers # <<>> /\ v = Head(answers) /\ answers' = Tail(answers)
           /\ UNCHANGED <<requests, faults, late>>
  <2>1. answers' \in Seq(Values) /\ requests' \in [Ids -> Seq(Commands)] /\ late' \in BOOLEAN
      BY <1>1, <1>2 DEF Wires
  <2>2. ASSUME ~late PROVE answers' = <<>> /\ \A b \in Ids : Free(b)'
    <3>1. /\ \A b \in Ids : Free(b)
          /\ \E u \in Values : answers = <<u>>
        BY <1>1, <1>2, <2>2 DEF PhaseInv, OneRequest
    <3>2. Tail(answers) = <<>>
        BY <3>1, SingleSeq
    <3>3. QED BY <1>2, <3>1, <3>2 DEF Free
  <2>3. QED BY <1>1, <1>2, <2>1, <2>2
<1>3. CASE answers = <<>> /\ v = None /\ ~Online(x.i) /\ UNCHANGED <<queues, faults, late>>
  <2>1. UNCHANGED <<requests, answers, late>>
      BY <1>3 DEF queues
  <2>2. ASSUME ~late PROVE \A b \in Ids : Free(b)'
    <3>1. client[x.i] = "closed" /\ \A b \in Ids \ {x.i} : Free(b)
        BY <1>1, <1>3, <2>2 DEF PhaseInv, OneRequest, Online
    <3>2. QED BY <2>1, <3>1 DEF Free
  <2>3. QED BY <1>1, <1>3, <2>1, <2>2 DEF Wires
<1>4. CASE late' = TRUE /\ UNCHANGED queues
    BY <1>1, <1>4 DEF Wires, queues
<1>5. QED BY <1>2, <1>3, <1>4 DEF Got

(* Asking: the executor gives up, crashes, or a request is under way. *)
LEMMA AskKeepsPhase ==
    ASSUME Data, Data', PhaseInv, x.at \in Asking, ~ask, Unchanged,
           Release \/ Request(Command(x.at))
    PROVE  PhaseInv'
<1>1. /\ Wires /\ ~ask /\ x.i \in Ids /\ x \in Executors
      /\ UNCHANGED <<thread, client, titan, runs>>
    BY DEF PhaseInv, Data, Executors, Unchanged, generator
<1>2. CASE Release
  <2>1. UNCHANGED <<requests, answers, late, hasty>> /\ GiveUp("error")
      BY <1>2 DEF Release, queues
  <2>2. ask' = FALSE
      BY <2>1, StopBatsEnds
  <2>3. Wires'
      BY <1>1, <2>1, <2>2 DEF Wires
  <2>4. QED BY <1>1, <2>1, <2>2, <2>3, StopBatsEnds, EndKeepsPhase
<1>3. CASE Crash
  <2>1. /\ UNCHANGED <<requests, answers, late, hasty, ask, state>>
        /\ x' = [x EXCEPT !.at = "finish", !.result = "crash"]
      BY <1>3 DEF Crash, queues, history
  <2>2. x'.at \in Ended /\ x'.phase = x.phase
      BY <1>1, <2>1 DEF Executors, Ended
  <2>3. Wires' /\ ask' = FALSE
      BY <1>1, <2>1 DEF Wires
  <2>4. QED BY <1>1, <2>1, <2>2, <2>3, EndKeepsPhase
<1>4. CASE /\ ask' = TRUE /\ UNCHANGED <<x, stop, answers, state, history>>
           /\ requests' = [requests EXCEPT ![x.i] = Append(@, Command(x.at))]
  <2>1. Command(x.at) \in Commands
      BY DEF Command, Commands
  <2>2. requests[x.i] \in Seq(Commands) /\ late' = late /\ hasty' = hasty
      BY <1>1, <1>4 DEF Wires, history
  <2>3. Append(requests[x.i], Command(x.at)) \in Seq(Commands)
      BY <2>1, <2>2
  <2>4. /\ requests' \in [Ids -> Seq(Commands)]
        /\ requests'[x.i] = Append(requests[x.i], Command(x.at))
        /\ \A b \in Ids \ {x.i} : requests'[b] = requests[b]
      BY <1>1, <1>4, <2>3 DEF Wires
  <2>5. Wires' /\ Clients' /\ RoundHolds' /\ PhaseHolds'
      BY <1>1, <1>4, <2>2, <2>4
         DEF PhaseInv, Wires, Clients, Unborn, RoundHolds, PhaseHolds
  <2>6. ASSUME ~late PROVE /\ answers = <<>> /\ \A b \in Ids \ {x.i} : Free(b)'
                           /\ Free(x.i)' \/ requests'[x.i] = <<Command(x.at)>>
    <3>1. answers = <<>> /\ \A b \in Ids : Free(b)
        BY <1>1, <2>6 DEF PhaseInv, OneRequest, Asking, Ended
    <3>2. requests[x.i] = <<>> => requests'[x.i] = <<Command(x.at)>>
        BY <2>1, <2>4, SingleSeq
    <3>3. x' = x /\ client' = client
        BY <1>1, <1>4
    <3>4. QED BY <1>1, <2>4, <3>1, <3>2, <3>3 DEF Free
  <2>7. x' = x /\ answers' = answers
      BY <1>4
  <2>8. OneRequest'
      BY <1>4, <2>2, <2>6, <2>7 DEF OneRequest
  <2>9. AnswerHolds'
      BY <2>2, <2>6, <2>7 DEF AnswerHolds
  <2>10. QED BY <2>5, <2>8, <2>9 DEF PhaseInv
<1>5. QED BY <1>2, <1>3, <1>4 DEF Request

(* Where the executor goes with an answer. *)
LEMMA PhaseOverAt ==
    ASSUME x \in Executors
    PROVE  /\ PhaseOver.at \in {"skip", "phase"} /\ PhaseOver.phase # "preexec"
BY DEF PhaseOver, Next_, Executors

LEMMA StartedAt ==
    ASSUME x \in Executors
    PROVE  /\ Started.at \in {"phase", "join", "status"} /\ Started.phase = x.phase
           /\ Started.at = "status" => Started.i = 1
BY DEF Started, Advance, Executors

LEMMA RoundAt ==
    ASSUME x \in Executors, NEW ready \in BOOLEAN, NEW r, r = Round(ready)
    PROVE  \/ x.i < Bats /\ r.at = "status" /\ r.i = x.i + 1 /\ r.ready = ready /\ r.phase = x.phase
           \/ r.at = "halt" /\ x.phase = "loadgen" /\ r.phase = x.phase
           \/ r.at = "status" /\ r.i = 1 /\ r.phase = x.phase
           \/ ready /\ ~(x.i < Bats) /\ r = PhaseOver
BY DEF Round, Advance, Executors

LEMMA GoOnKeepsPhase ==
    ASSUME Data, Data', PhaseInv, NEW v \in Values, Got(v), NEW to, Continue(to), Unchanged,
           to.at \in Asking \cup {"skip", "join"},
           to.at \in {"halt", "halted", "skip"} => to.phase # "preexec",
           \/ to.phase = x.phase
           \/ x.phase # "preexec" /\ to.phase # "preexec"
           \/ to.phase # "preexec" /\ (late' \/ \A b \in Ids : runs[b] # "running"),
           ~late' /\ to.at \in {"status", "where"} /\ to.ready /\ to.phase = "preexec" =>
               \A b \in Ids : b < to.i => runs[b] # "running"
    PROVE  PhaseInv'
<1>1. /\ x' = to /\ ask' = FALSE /\ UNCHANGED <<thread, state, client, titan, runs>>
    BY DEF Continue, Unchanged, generator
<1>2. /\ (late => late') /\ late' \in BOOLEAN /\ hasty' = hasty
      /\ requests' \in [Ids -> Seq(Commands)] /\ answers' \in Seq(Values)
      /\ x.at \in Asking
      /\ ~late' => answers' = <<>> /\ \A b \in Ids : Free(b)'
    BY <1>1, GotOwnAnswer
<1>3. Wires'
    BY <1>1, <1>2 DEF PhaseInv, Wires
<1>4. RoundHolds'
    BY <1>1 DEF RoundHolds
<1>5. x.at \notin Ended \cup {"start", "ready"} /\ x'.at # "start"
    BY <1>1, <1>2 DEF Ended, Asking
<1>6. QED BY <1>1, <1>2, <1>3, <1>4, <1>5, MoveKeepsPhase

LEMMA FailKeepsPhase ==
    ASSUME Data, Data', PhaseInv, NEW v \in Values, Got(v), Fail, Unchanged
    PROVE  PhaseInv'
<1>1. GiveUp("error") /\ UNCHANGED <<thread, client, titan, runs>>
    BY DEF Fail, Unchanged, generator
<1>2. /\ (late => late') /\ late' \in BOOLEAN /\ hasty' = hasty /\ ask' = FALSE
      /\ requests' \in [Ids -> Seq(Commands)] /\ answers' \in Seq(Values)
    BY <1>1, GotOwnAnswer, StopBatsEnds
<1>3. Wires'
    BY <1>1, <1>2 DEF PhaseInv, Wires
<1>4. QED BY <1>1, <1>2, <1>3, StopBatsEnds, EndKeepsPhase

(* A round of wait_phase_end(): the BAT whose answer counts as ready is at *)
(* rest, and so is every BAT when the last one does.                       *)
LEMMA RoundKeepsPhase ==
    ASSUME Data, Data', PhaseInv, NEW v \in Values, Got(v), x.at \in {"status", "where"},
           NEW ready \in BOOLEAN, Continue(Round(ready)), Unchanged,
           ready /\ ~late' => x.ready /\ runs[x.i] # "running"
    PROVE  PhaseInv'
<1> DEFINE to == Round(ready)
<1>1. /\ x \in Executors /\ x.i \in Ids /\ Bats \in Nat
      /\ \A b \in Ids : b \in Nat /\ b <= Bats
  <2>1. x \in Executors /\ x.i \in Ids
      BY DEF Data, Executors
  <2>2. Bats \in Nat /\ \A b \in Ids : b \in Nat /\ b <= Bats
      BY BatsAssumption DEF Ids
  <2>3. QED BY <2>1, <2>2
<1>2. late => late'
    BY GotOwnAnswer DEF Unchanged
<1>3. ASSUME ready, ~late', x.phase = "preexec", NEW b \in Ids, b < x.i \/ b = x.i
      PROVE  runs[b] # "running"
    BY <1>2, <1>3 DEF PhaseInv, RoundHolds
<1>4. \/ x.i < Bats /\ to.at = "status" /\ to.i = x.i + 1 /\ to.ready = ready /\ to.phase = x.phase
      \/ to.at = "halt" /\ x.phase = "loadgen" /\ to.phase = x.phase
      \/ to.at = "status" /\ to.i = 1 /\ to.phase = x.phase
      \/ ready /\ ~(x.i < Bats) /\ to = PhaseOver
    BY <1>1, RoundAt
<1> HIDE DEF to
<1>5. Continue(to)
    BY DEF to
<1>6. CASE x.i < Bats /\ to.at = "status" /\ to.i = x.i + 1 /\ to.ready = ready /\ to.phase = x.phase
  <2>1. \A b \in Ids : b < to.i => b < x.i \/ b = x.i
      BY <1>1, <1>6
  <2>2. ~late' /\ to.ready /\ to.phase = "preexec" => \A b \in Ids : b < to.i => runs[b] # "running"
      BY <1>3, <1>6, <2>1
  <2>3. QED BY <1>5, <1>6, <2>2, GoOnKeepsPhase DEF Asking
<1>7. CASE to.at = "halt" /\ x.phase = "loadgen" /\ to.phase = x.phase
    BY <1>5, <1>7, GoOnKeepsPhase DEF Asking
<1>8. CASE to.at = "status" /\ to.i = 1 /\ to.phase = x.phase
  <2>1. \A b \in Ids : ~(b < to.i)
      BY <1>8 DEF Ids
  <2>2. QED BY <1>5, <1>8, <2>1, GoOnKeepsPhase DEF Asking
<1>9. CASE ready /\ ~(x.i < Bats) /\ to = PhaseOver
  <2>1. \A b \in Ids : b < x.i \/ b = x.i
      BY <1>1, <1>9
  <2>2. x.phase = "preexec" => late' \/ \A b \in Ids : runs[b] # "running"
      BY <1>3, <1>9, <2>1
  <2>3. to.at \in {"skip", "phase"} /\ to.phase # "preexec"
      BY <1>1, <1>9, PhaseOverAt
  <2>4. QED BY <1>5, <2>2, <2>3, GoOnKeepsPhase DEF Asking
<1>10. QED BY <1>4, <1>6, <1>7, <1>8, <1>9

LEMMA GotKeepsPhase ==
    ASSUME Data, Data', PhaseInv,
           GotPhase \/ GotStart \/ GotStatus \/ GotWhere \/ GotStop \/ GotStopped
    PROVE  PhaseInv'
<1>1. x \in Executors /\ Unchanged
    BY DEF Data, GotPhase, GotStart, GotStatus, GotWhere, GotStop, GotStopped
<1>2. ASSUME NEW v \in Values, Got(v), Continue(Started) PROVE PhaseInv'
  <2> DEFINE to == Started
  <2>1. /\ to.at \in {"phase", "join", "status"} /\ to.phase = x.phase
        /\ to.at = "status" => to.i = 1
      BY <1>1, StartedAt
  <2>2. Continue(to)
      BY <1>2
  <2> HIDE DEF to
  <2>3. to.at = "status" => \A b \in Ids : ~(b < to.i)
      BY <2>1 DEF Ids
  <2>4. QED BY <1>1, <1>2, <2>1, <2>2, <2>3, GoOnKeepsPhase DEF Asking
<1>3. CASE GotPhase
  <2>1. PICK v \in Values : Got(v) /\ (Continue([x EXCEPT !.at = "go"]) \/ Continue(Started))
      BY <1>3 DEF GotPhase
  <2> DEFINE to == [x EXCEPT !.at = "go"]
  <2>2. to.at = "go" /\ to.phase = x.phase
      BY <1>1 DEF Executors
  <2>3. CASE Continue(to)
    <3> HIDE DEF to
    <3>1. QED BY <1>1, <2>1, <2>2, <2>3, GoOnKeepsPhase DEF Asking
  <2>4. QED BY <1>2, <2>1, <2>3
<1>4. CASE GotStart
  <2>1. PICK v \in Values : Got(v) /\ (Continue(Started) \/ Fail)
      BY <1>4 DEF GotStart
  <2>2. QED BY <1>1, <1>2, <2>1, FailKeepsPhase
<1>5. CASE GotStatus
  <2>1. PICK v \in Values :
            /\ Got(v)
            /\ \/ Fail
               \/ v # None /\ v[1] = "Stopped" /\ Continue(Round(x.ready /\ ~x.patience))
               \/ Continue([x EXCEPT !.at = "where"])
    <3>1. PICK v \in Values :
              /\ Got(v)
              /\ CASE v = None -> Fail
                   [] v[1] = "Stopped" -> Continue(Round(x.ready /\ ~x.patience))
                   [] OTHER -> Continue([x EXCEPT !.at = "where"])
        BY <1>5 DEF GotStatus
    <3>2. None[1] # "Stopped"
        BY DEF None
    <3>3. CASE v = None
        BY <3>1, <3>2, <3>3
    <3>4. CASE v # None /\ v[1] = "Stopped"
        BY <3>1, <3>4
    <3>5. CASE v # None /\ v[1] # "Stopped"
        BY <3>1, <3>5
    <3>6. QED BY <3>3, <3>4, <3>5
  <2> DEFINE to == [x EXCEPT !.at = "where"]
             ready == x.ready /\ ~x.patience
  <2>2. CASE Continue(to)
    <3>1. to.at = "where" /\ to.phase = x.phase /\ to.i = x.i /\ to.ready = x.ready
        BY <1>1 DEF Executors
    <3>2. late => late'
        BY <1>1, <2>1, GotOwnAnswer DEF Unchanged
    <3>3. ~late' /\ x.ready /\ x.phase = "preexec" => \A b \in Ids : b < x.i => runs[b] # "running"
        BY <1>5, <3>2 DEF GotStatus, PhaseInv, RoundHolds
    <3> HIDE DEF to
    <3>4. QED BY <1>1, <2>1, <2>2, <3>1, <3>3, GoOnKeepsPhase DEF Asking
  <2>3. CASE v # None /\ v[1] = "Stopped" /\ Continue(Round(ready))
    <3>1. x.at = "status" /\ ask
        BY <1>5 DEF GotStatus, Got
    <3>2. (late => late') /\ (~late' => answers # <<>> /\ v = Head(answers))
        BY <1>1, <2>1, <2>3, GotOwnAnswer DEF Unchanged
    <3>3. ~late' => runs[x.i] # "running"
        BY <2>3, <3>1, <3>2 DEF PhaseInv, AnswerHolds
    <3>4. ready \in BOOLEAN /\ (ready => x.ready)
        OBVIOUS
    <3> HIDE DEF ready
    <3>5. QED BY <1>1, <2>1, <2>3, <3>1, <3>3, <3>4, RoundKeepsPhase
  <2>4. QED BY <1>1, <2>1, <2>2, <2>3, FailKeepsPhase
<1>6. CASE GotWhere
  <2>1. PICK v \in Values :
            Got(v) /\ Continue(Round(x.ready /\ v = <<Next_(x.phase), TRUE>>))
      BY <1>6 DEF GotWhere
  <2> DEFINE ready == x.ready /\ v = <<Next_(x.phase), TRUE>>
  <2>2. ready \in BOOLEAN /\ (ready => x.ready /\ v[2] = TRUE /\ v # None)
    <3>1. ~None[2]
        BY DEF None
    <3>2. v = <<Next_(x.phase), TRUE>> => v[2] = TRUE
        OBVIOUS
    <3>3. QED BY <3>1, <3>2
  <2>3. x.at = "where" /\ ask
      BY <1>6 DEF GotWhere, Got
  <2>4. (late => late') /\ (~late' => v = None \/ (answers # <<>> /\ v = Head(answers)))
      BY <1>1, <2>1, GotOwnAnswer DEF Unchanged
  <2>5. ready /\ ~late' => x.ready /\ runs[x.i] # "running"
    <3> HIDE DEF ready
    <3>1. QED BY <2>2, <2>3, <2>4 DEF PhaseInv, AnswerHolds
  <2>6. Continue(Round(ready))
      BY <2>1
  <2> HIDE DEF ready
  <2>7. QED BY <1>1, <2>1, <2>2, <2>3, <2>5, <2>6, RoundKeepsPhase
<1>7. CASE GotStop
  <2> DEFINE to == Advance("halt", TRUE, [x EXCEPT !.at = "halted", !.i = 1, !.ready = TRUE])
  <2>1. PICK v \in Values : Got(v) /\ (Continue(to) \/ Fail)
      BY <1>7 DEF GotStop
  <2>2. to.at \in {"halt", "halted"} /\ to.phase = x.phase
      BY <1>1 DEF Advance, Executors
  <2>3. x.phase # "preexec"
      BY <1>7 DEF GotStop, PhaseInv, PhaseHolds
  <2> HIDE DEF to
  <2>4. CASE Continue(to)
      BY <1>1, <2>1, <2>2, <2>3, <2>4, GoOnKeepsPhase DEF Asking
  <2>5. QED BY <1>1, <2>1, <2>4, FailKeepsPhase
<1>8. CASE GotStopped
  <2>1. PICK v \in Values :
            /\ Got(v)
            /\ LET ready == x.ready /\ v[1] = "Stopped" IN
               IF v = None THEN Fail
               ELSE Continue(Advance("halted", ready, IF ready THEN PhaseOver
                                 ELSE [x EXCEPT !.i = 1, !.ready = TRUE]))
      BY <1>8 DEF GotStopped
  <2> DEFINE ready == x.ready /\ v[1] = "Stopped"
             again == [x EXCEPT !.i = 1, !.ready = TRUE]
             to == Advance("halted", ready, IF ready THEN PhaseOver ELSE again)
  <2>2. x.at = "halted" /\ x.phase # "preexec"
      BY <1>8 DEF GotStopped, PhaseInv, PhaseHolds
  <2>3. to.at \in {"halted", "skip", "phase"} /\ to.phase # "preexec"
    <3>1. again.at = "halted" /\ again.phase = x.phase
        BY <1>1, <2>2 DEF Executors
    <3> HIDE DEF again
    <3>2. CASE x.i < Bats
      <4>1. to = [x EXCEPT !.at = "halted", !.i = x.i + 1, !.ready = ready]
          BY <3>2 DEF Advance
      <4>2. QED BY <1>1, <2>2, <4>1 DEF Executors
    <3>3. CASE ~(x.i < Bats)
      <4>1. to = PhaseOver \/ to = again
          BY <3>3 DEF Advance
      <4>2. QED BY <1>1, <2>2, <3>1, <4>1, PhaseOverAt
    <3>4. QED BY <3>2, <3>3
  <2>4. Continue(to) \/ Fail
      BY <2>1
  <2> HIDE DEF ready, again, to
  <2>5. CASE Continue(to)
      BY <1>1, <2>1, <2>2, <2>3, <2>5, GoOnKeepsPhase DEF Asking
  <2>6. QED BY <1>1, <2>1, <2>4, <2>5, FailKeepsPhase
<1>9. QED BY <1>3, <1>4, <1>5, <1>6, <1>7, <1>8

(* The other steps of the executor. *)
LEMMA OthersKeepPhase ==
    ASSUME Data, Data', PhaseInv,
           \/ SkipPostexec \/ Shut \/ ShutFails \/ UserStops \/ UserStopsAgain
           \/ UserEndsLoadgen \/ CtrlCSwallowed \/ RequestStop \/ Finish
    PROVE  PhaseInv'
<1>1. /\ Wires /\ x \in Executors /\ UNCHANGED <<thread, client, titan, runs>>
      /\ UNCHANGED <<requests, answers>>
    BY DEF PhaseInv, Data, SkipPostexec, Shut, ShutFails, UserStops, UserStopsAgain,
           UserEndsLoadgen, CtrlCSwallowed, Interrupted, RequestStop, Finish, Unchanged,
           generator, queues, bat
<1>2. CASE SkipPostexec \/ Shut \/ UserStops
  <2>1. UNCHANGED <<late, hasty>> /\ \E result : StopBats(result) \/ GiveUp(result)
      BY <1>2 DEF SkipPostexec, Shut, UserStops
  <2>2. ask' = FALSE
      BY <2>1, StopBatsEnds
  <2>3. Wires'
      BY <1>1, <2>1, <2>2 DEF Wires
  <2>4. QED BY <1>1, <2>1, <2>2, <2>3, StopBatsEnds, EndKeepsPhase
<1>3. CASE UserEndsLoadgen
  <2>1. /\ x.at \in {"status", "where"} /\ x.phase = "loadgen" /\ state' = state
        /\ x' = [x EXCEPT !.at = "halt", !.i = 1] /\ ask' = FALSE /\ late' = (late \/ ask)
         /\ hasty' = hasty
      BY <1>3 DEF UserEndsLoadgen, Interrupted
  <2>2. x'.at = "halt" /\ x'.phase = "loadgen"
      BY <1>1, <2>1 DEF Executors
  <2>3. late' \in BOOLEAN
      BY <2>1
  <2>4. Wires'
      BY <1>1, <2>1, <2>3 DEF Wires
  <2>5. ASSUME ~late' PROVE answers' = <<>> /\ \A b \in Ids : Free(b)'
    <3>1. answers = <<>> /\ \A b \in Ids : Free(b)
        BY <2>1, <2>5 DEF PhaseInv, OneRequest, Ended
    <3>2. QED BY <1>1, <3>1 DEF Free
  <2>6. RoundHolds'
      BY <2>2 DEF RoundHolds
  <2>7. x.at \notin Ended \cup {"start", "ready"} /\ x'.at # "start"
      BY <2>1, <2>2 DEF Ended
  <2>8. QED BY <1>1, <2>1, <2>2, <2>4, <2>5, <2>6, <2>7, MoveKeepsPhase
<1>4. CASE RequestStop
  <2>1. UNCHANGED <<x, ask, state, late, hasty>>
      BY <1>4 DEF RequestStop, bat, history
  <2>2. QED BY <1>1, <2>1 DEF PhaseInv, Wires, Clients, Unborn, OneRequest, Free,
               AnswerHolds, RoundHolds, PhaseHolds
<1>5. CASE Finish \/ ShutFails \/ UserStopsAgain
  <2>1. /\ UNCHANGED <<ask, state, late, hasty>>
        /\ \/ x' = [x EXCEPT !.at = "done"] /\ x.at = "finish"
           \/ x' = [x EXCEPT !.at = "finish", !.result = "crash"]
           \/ x' = [x EXCEPT !.at = "stuck"]
           \/ x' = [x EXCEPT !.at = "shut", !.result = "error"]
      BY <1>5 DEF Finish, ShutFails, UserStopsAgain, history
  <2>2. ~ask
    <3>1. ASSUME x.at \notin Asking PROVE ~ask
        BY <3>1 DEF PhaseInv, OneRequest
    <3>2. CASE Finish \/ UserStopsAgain
        BY <3>1, <3>2 DEF Finish, UserStopsAgain, Asking
    <3>3. CASE ShutFails
        BY <3>1, <3>3 DEF ShutFails, BetweenPhases, Asking
    <3>4. QED BY <1>5, <3>2, <3>3
  <2>3. x'.at \in Ended /\ x'.phase = x.phase
      BY <1>1, <2>1 DEF Executors, Ended
  <2>4. ask' = FALSE /\ Wires'
      BY <1>1, <2>1, <2>2 DEF Wires
  <2>5. QED BY <1>1, <2>1, <2>3, <2>4, EndKeepsPhase
<1>6. CASE CtrlCSwallowed
  <2>1. /\ x.at \in {"status", "where"} /\ x.phase = "preexec" /\ state' = state
        /\ ask' = FALSE /\ late' = (late \/ ask)
        /\ \/ x' = PhaseOver /\ hasty' = TRUE
           \/ /\ x' = [x EXCEPT !.at = "status", !.i = 1, !.ready = TRUE]
              /\ hasty' = hasty
      BY <1>6 DEF CtrlCSwallowed, Interrupted
  <2>2. \/ x'.at \in {"skip", "phase"} /\ x'.phase # "preexec" /\ hasty' = TRUE
        \/ x'.at = "status" /\ x'.i = 1 /\ x'.phase = "preexec" /\ hasty' = hasty
      BY <1>1, <2>1, PhaseOverAt DEF Executors
  <2>3. late' \in BOOLEAN /\ hasty' \in BOOLEAN /\ (late => late') /\ (hasty => hasty')
    <3>1. late' \in BOOLEAN /\ (late => late')
        BY <2>1
    <3>2. hasty' \in BOOLEAN /\ (hasty => hasty')
      <4>1. CASE hasty' = TRUE
          BY <4>1
      <4>2. CASE hasty' = hasty
          BY <1>1, <4>2 DEF Wires
      <4>3. QED BY <2>1, <4>1, <4>2
    <3>3. QED BY <3>1, <3>2
  <2>4. Wires'
      BY <1>1, <2>1, <2>3 DEF Wires
  <2>5. ASSUME ~late' PROVE answers' = <<>> /\ \A b \in Ids : Free(b)'
    <3>1. answers = <<>> /\ \A b \in Ids : Free(b)
        BY <2>1, <2>5 DEF PhaseInv, OneRequest, Ended
    <3>2. QED BY <1>1, <3>1 DEF Free
  <2>6. RoundHolds'
      BY <2>2 DEF RoundHolds, Ids
  <2>7. /\ x.at \notin Ended \cup {"start", "ready"} /\ x'.at # "start"
        /\ x'.at \in {"halt", "halted", "skip"} => x'.phase # "preexec"
      BY <2>1, <2>2 DEF Ended
  <2>8. QED BY <1>1, <2>1, <2>2, <2>3, <2>4, <2>5, <2>6, <2>7, MoveKeepsPhase
<1>7. QED BY <1>2, <1>3, <1>4, <1>5, <1>6

LEMMA JoinKeepsPhase ==
    ASSUME Data, Data', PhaseInv, Join
    PROVE  PhaseInv'
<1>1. /\ Wires /\ x \in Executors /\ x.at \in {"join", "joining"}
      /\ UNCHANGED <<thread, client, titan, runs, requests, answers, ask, state, late, hasty>>
    BY DEF PhaseInv, Data, Join, Unchanged, generator, queues, history
<1>2. ~ask
    BY <1>1 DEF PhaseInv, OneRequest, Asking
<1>3. Wires' /\ ask' = FALSE
    BY <1>1, <1>2 DEF Wires
<1>4. x'.at \in {x.at, "finish"} /\ x'.phase = x.phase
  <2>1. \/ x' = [x EXCEPT !.at = x.at, !.i = x.i + 1, !.ready = TRUE]
        \/ \E res : x' = [x EXCEPT !.at = "finish", !.result = res]
      BY DEF Join, Advance
  <2>2. QED BY <1>1, <2>1 DEF Executors
<1>5. CASE x'.at \in Ended
    BY <1>1, <1>3, <1>4, <1>5, EndKeepsPhase
<1>6. CASE x'.at = "join" /\ x.at = "join"
  <2>1. ~late => answers = <<>> /\ \A b \in Ids : Free(b)
      BY <1>2, <1>6 DEF PhaseInv, OneRequest, Ended
  <2>2. ~late' => answers' = <<>> /\ \A b \in Ids : Free(b)'
      BY <1>1, <2>1 DEF Free
  <2>3. RoundHolds'
      BY <1>6 DEF RoundHolds
  <2>4. x.at \notin Ended \cup {"start", "ready"} /\ x'.at # "start"
      BY <1>6 DEF Ended
  <2>5. QED BY <1>1, <1>3, <1>4, <1>6, <2>2, <2>3, <2>4, MoveKeepsPhase
<1>7. QED BY <1>1, <1>4, <1>5, <1>6 DEF Ended

LEMMA ReadyKeepsPhase ==
    ASSUME Data, Data', PhaseInv, Ready
    PROVE  PhaseInv'
<1>1. /\ Wires /\ x \in Executors /\ x.at = "ready"
      /\ UNCHANGED <<thread, client, titan, runs, requests, answers, late, hasty>>
    BY DEF PhaseInv, Data, Ready, Release, Unchanged, generator, queues, history
<1>2. CASE Release
  <2>1. GiveUp("error")
      BY <1>2 DEF Release
  <2>2. ask' = FALSE
      BY <2>1, StopBatsEnds
  <2>3. Wires'
      BY <1>1, <2>2 DEF Wires
  <2>4. QED BY <1>1, <2>1, <2>2, <2>3, StopBatsEnds, EndKeepsPhase
<1>3. CASE Go("phase") /\ UNCHANGED <<ask, state>> /\ \A b \in Ids : Online(b)
  <2>1. x'.at = "phase" /\ x'.phase = x.phase
      BY <1>1, <1>3 DEF Go, Executors
  <2>2. ~ask
      BY <1>1 DEF PhaseInv, OneRequest, Asking
  <2>3. Wires' /\ ask' = FALSE
      BY <1>1, <1>3, <2>2 DEF Wires
  <2>4. ~late => answers = <<>> /\ \A b \in Ids : Free(b)
      BY <1>1, <2>2 DEF PhaseInv, OneRequest, Ended
  <2>5. ~late' => answers' = <<>> /\ \A b \in Ids : Free(b)'
      BY <1>1, <2>4 DEF Free
  <2>6. RoundHolds'
      BY <2>1 DEF RoundHolds
  <2>7. x.at \notin Ended \cup {"start"}
      BY <1>1 DEF Ended
  <2>8. QED BY <1>1, <1>3, <2>1, <2>3, <2>5, <2>6, <2>7, MoveKeepsPhase
<1>4. QED BY <1>2, <1>3 DEF Ready

LEMMA StartBatKeepsPhase ==
    ASSUME Data, Data', PhaseInv, StartBat
    PROVE  PhaseInv'
<1>1. /\ Wires /\ x \in Executors /\ x.at = "start" /\ x.i \in Ids
      /\ UNCHANGED <<client, titan, runs, requests, answers, ask, state, late, hasty>>
      /\ thread' = [thread EXCEPT ![x.i] = "begin"]
    BY DEF PhaseInv, Data, StartBat, generator, queues, history, Executors
<1>2. /\ x'.phase = x.phase
      /\ (x'.at = "start" /\ x'.i = x.i + 1) \/ x'.at = "ready"
  <2>1. \/ x' = [x EXCEPT !.at = "start", !.i = x.i + 1, !.ready = TRUE]
        \/ x' = [x EXCEPT !.at = "ready", !.i = 1]
      BY DEF StartBat, Advance
  <2>2. QED BY <1>1, <2>1 DEF Executors
<1>3. Wires'
    BY <1>1 DEF Wires
<1>4. Clients'
  <2>1. \A b \in Ids : Unborn(b)'
    <3>1. x.i <= x.i
        BY <1>1 DEF Ids
    <3>2. thread[x.i] = "new" /\ client[x.i] = "none"
        BY <1>1, <3>1 DEF PhaseInv, Clients, Unborn
    <3>3. QED BY <1>1, <3>2 DEF PhaseInv, Clients, Unborn, Data
  <2>2. ASSUME x'.at = "start", NEW b \in Ids, x'.i <= b PROVE thread'[b] = "new"
    <3>1. x.i <= b /\ b # x.i
        BY <1>1, <1>2, <2>2 DEF Ids
    <3>2. QED BY <1>1, <3>1 DEF PhaseInv, Clients, Data
  <2>3. QED BY <1>2, <2>1, <2>2 DEF Clients
<1>5. ~ask /\ x'.at \notin Asking \cup Ended
    BY <1>1, <1>2 DEF PhaseInv, OneRequest, Asking, Ended
<1>6. OneRequest'
    BY <1>1, <1>5 DEF PhaseInv, OneRequest, Free, Ended
<1>7. AnswerHolds' /\ RoundHolds' /\ PhaseHolds'
    BY <1>1, <1>2, <1>5 DEF PhaseInv, AnswerHolds, RoundHolds, PhaseHolds
<1>8. QED BY <1>3, <1>4, <1>6, <1>7 DEF PhaseInv

LEMMA PhaseStepKeeps ==
    ASSUME Data, Data', PhaseInv, [Next]_vars
    PROVE  PhaseInv'
<1>1. ASSUME UNCHANGED vars PROVE PhaseInv'
    BY <1>1 DEF vars, executor, queues, bat, generator, history, PhaseInv, Wires, Clients,
           Unborn, OneRequest, Free, AnswerHolds, RoundHolds, PhaseHolds
<1>2. CASE StartBat \/ Ready \/ Join
    BY <1>2, StartBatKeepsPhase, ReadyKeepsPhase, JoinKeepsPhase
<1>3. ASSUME AskPhase \/ AskStart \/ AskStatus \/ AskStop PROVE PhaseInv'
  <2>1. x.at \in Asking /\ ~ask /\ Unchanged /\ (Release \/ Request(Command(x.at)))
      BY <1>3 DEF AskPhase, AskStart, AskStatus, AskStop, Ask, Asking, Command
  <2>2. QED BY <2>1, AskKeepsPhase
<1>4. CASE GotPhase \/ GotStart \/ GotStatus \/ GotWhere \/ GotStop \/ GotStopped
    BY <1>4, GotKeepsPhase
<1>5. CASE \/ SkipPostexec \/ Shut \/ ShutFails \/ UserStops \/ UserStopsAgain
           \/ UserEndsLoadgen \/ CtrlCSwallowed \/ RequestStop \/ Finish
    BY <1>5, OthersKeepPhase
<1>6. ASSUME NEW b \in Ids, OfBat(b) PROVE PhaseInv'
    BY <1>6, BatKeepsPhase, GeneratorKeepsPhase, ServeKeepsPhase, ServeFailsKeepsPhase
       DEF OfBat, ClientStep, Disturbance
<1>7. QED BY <1>1, <1>2, <1>3, <1>4, <1>5, <1>6 DEF Next, ExecutorStep, OfBat

(* Requests, answers and phases are always as PhaseInv says. *)
THEOREM PhaseInvHolds == Spec => []PhaseInv
<1>1. Init => PhaseInv
  <2> SUFFICES ASSUME Init PROVE PhaseInv
      OBVIOUS
  <2>1. /\ x.at = "start" /\ x.phase = "preexec" /\ ask = FALSE /\ late = FALSE /\ hasty = FALSE
        /\ answers = <<>> /\ requests = [b \in Ids |-> <<>>]
        /\ thread = [b \in Ids |-> "new"] /\ client = [b \in Ids |-> "none"]
        /\ titan = [b \in Ids |-> "preexec"] /\ runs = [b \in Ids |-> "idle"]
      BY DEF Init
  <2>2. Wires
    <3>1. <<>> \in Seq(Values) /\ <<>> \in Seq(Commands)
        OBVIOUS
    <3>2. requests \in [Ids -> Seq(Commands)]
        BY <2>1, <3>1
    <3>3. titan \in [Ids -> Phases \cup {"end"}]
        BY <2>1 DEF Phases
    <3>4. /\ client \in [Ids -> {"none", "connecting", "online", "closed"}]
          /\ runs \in [Ids -> {"idle", "running", "stopped"}]
        BY <2>1
    <3>5. QED BY <2>1, <3>1, <3>2, <3>3, <3>4 DEF Wires
  <2>3. Clients /\ OneRequest
      BY <2>1 DEF Clients, Unborn, OneRequest, Free
  <2>4. AnswerHolds /\ RoundHolds /\ PhaseHolds
      BY <2>1 DEF AnswerHolds, RoundHolds, PhaseHolds
  <2>5. QED BY <2>2, <2>3, <2>4 DEF PhaseInv
<1>2. IndInv => Data
    BY DEF IndInv
<1>3. Data /\ Data' /\ PhaseInv /\ [Next]_vars => PhaseInv'
    BY PhaseStepKeeps
<1>4. QED BY <1>1, <1>2, <1>3, IndInvHolds, PTL DEF Spec

(* For any number of BAT instances, faults and rounds of wait_phase_end(): *)
(* as long as no answer was late and no Ctrl-C ended preexec, no generator *)
(* runs loadgen or postexec while another still runs preexec.  There is at *)
(* most one request under way, so the one queue of answers does not mix    *)
(* the BATs up.                                                            *)
THEOREM PhasesStayInStep == Spec => []PhasesInStep
<1>1. PhaseInv => PhasesInStep
    BY DEF PhaseInv, PhaseHolds, PhasesInStep
<1>2. QED BY <1>1, PhaseInvHolds, PTL
=============================================================================
