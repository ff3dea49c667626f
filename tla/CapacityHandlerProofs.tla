----------------------- MODULE CapacityHandlerProofs -----------------------
(***************************************************************************)
(* Proofs about the search for the capacity of a node, for any BATs, steps *)
(* of the search, traffic slots and failures of the reader.                *)
(***************************************************************************)
EXTENDS CapacityHandler, TLAPS

Searching == {"search", "search_down", "validate"}
Underway == {"start", "loadgen", "end", "interrupt", "release", "crashed"}

Data ==
    /\ used \in [Bats -> Seq(Int)]
    /\ steps \in Nat
    /\ period_load \in Seq(Loads)
    /\ fsm \in {"initial", "finished"} \cup Searching

(* Nothing was ordered, measured or published before loadgen starts. *)
Fresh ==
    exec \in {"preexec", "start"} =>
        /\ fsm = "initial" /\ steps = 0 /\ period_load = <<>>
        /\ reference = None

(* The step under way has an order for every BAT and no load yet; once the *)
(* search is over every step has its load, unless the first order failed.  *)
Steps ==
    /\ fsm \in Searching =>
           /\ \A b \in Bats : Len(used[b]) = steps
           /\ steps = Len(period_load) + 1
    /\ fsm = "finished" =>
           steps <= Len(period_load) \/ (steps = 1 /\ period_load = <<>>)
    /\ exec = "done" /\ ~bats_told => cfg.validation /\ steps > Len(period_load)

(* Only the end of the search publishes. *)
Measured ==
    reference # None =>
        fsm = "finished" /\ reference \in passed /\ reference = Current

(* A payload that is not back has a reader to give it back, or the cabinet *)
(* did not want it, or there was none to begin with.                       *)
Payload ==
    /\ exec = "preexec" => ~locked
    /\ exec \in Underway /\ locked => reader.running \/ refused \/ unwatched
    /\ exec = "done" /\ locked => refused \/ unwatched

IndInv == Data /\ Fresh /\ Steps /\ Measured /\ Payload

----------------------------------------------------------------------------
(* The steps that leave the search and what it published alone. *)
Aside ==
    \/ StartExecution
    \/ \E ok, works \in BOOLEAN : ReadCps(ok, works)
    \/ \E after \in BOOLEAN : LockFails(after)
    \/ PeriodWithoutLoad
    \/ \E over \in SUBSET Bats : RefreshSlots(over)
    \/ RefreshFails \/ StopPhase \/ ActionHandlerStops \/ Interrupt
    \/ \E works \in BOOLEAN : Shutdown(works)
    \/ UNCHANGED vars

LEMMA AsideLeavesSearch ==
    ASSUME Aside
    PROVE  UNCHANGED <<used, steps, period_load, fsm, reference, passed>>
BY DEF Aside, StartExecution, ReadCps, LockFails, PeriodWithoutLoad, RefreshSlots,
       RefreshFails, StopPhase, ActionHandlerStops, Interrupt, Shutdown, vars,
       searching

LEMMA NextSplit ==
    ASSUME [Next]_vars
    PROVE  \/ Aside
           \/ \E b \in Bats : StartBat(b)
           \/ \E m \in Measures : Period(m)
BY DEF Next, Aside, Over

(* Orders go to the end of the list of a BAT. *)
LEMMA OrderAppends ==
    ASSUME Data, NEW done, NEW value, \A b \in Bats : value[b] \in Int,
           Order(done, value)
    PROVE  /\ used' \in [Bats -> Seq(Int)]
           /\ done = Bats => \A b \in Bats : Len(used'[b]) = Len(used[b]) + 1
<1>1. used' = [b \in Bats |-> IF b \in done THEN Append(used[b], value[b])
                              ELSE used[b]]
    BY DEF Order
<1>2. ASSUME NEW b \in Bats
      PROVE  /\ Append(used[b], value[b]) \in Seq(Int)
             /\ Len(Append(used[b], value[b])) = Len(used[b]) + 1
  <2>1. used[b] \in Seq(Int) /\ value[b] \in Int
      BY DEF Data
  <2>2. QED BY <2>1
<1>3. QED BY <1>1, <1>2 DEF Data

(* While the search runs every BAT has a current value. *)
LEMMA CurrentIsThere ==
    ASSUME Data, Steps, fsm \in Searching, NEW b \in Bats
    PROVE  /\ Current[b] \in Int /\ Up[b] \in Int /\ Down[b] \in Int
           /\ (8 * Current[b]) \div 10 \in Int
<1>1. used[b] \in Seq(Int) /\ Len(used[b]) \in Nat \ {0}
  <2>1. used[b] \in Seq(Int) /\ Len(used[b]) = Len(period_load) + 1
      BY DEF Data, Steps
  <2>2. period_load \in Seq(Loads)
      BY DEF Data
  <2>3. QED BY <2>1, <2>2
<1>2. Current[b] \in Int
    BY <1>1 DEF Current, Last
<1>3. DeltaUp[b] \in Int /\ DeltaDown[b] \in Int
    BY CapacityAssumption
<1>4. QED BY <1>2, <1>3 DEF Up, Down

(* What a period of the search does to its steps, whatever it measures. *)
LEMMA PeriodSteps ==
    ASSUME IndInv, NEW m \in Measures, Period(m)
    PROVE  /\ used' \in [Bats -> Seq(Int)] /\ steps' \in Nat
           /\ period_load' \in Seq(Loads)
           /\ Len(period_load') = Len(period_load) + 1
           /\ fsm' \in Searching \cup {"finished"}
           /\ fsm' \in Searching =>
                  /\ steps' = steps + 1
                  /\ \A b \in Bats : Len(used'[b]) = Len(used[b]) + 1
           /\ fsm' = "finished" => steps' = steps
<1> USE DEF IndInv
<1>1. fsm \in Searching
    BY DEF Period, Searching
<1>2. /\ period_load' = Append(period_load, m.load) /\ m.load \in Loads
      /\ period_load \in Seq(Loads)
    BY DEF Period, Measures, Data
<1>3. /\ period_load' \in Seq(Loads)
      /\ Len(period_load') = Len(period_load) + 1
    BY <1>2
<1>4. \A b \in Bats : /\ Up[b] \in Int /\ Down[b] \in Int
                      /\ (8 * Current[b]) \div 10 \in Int
    BY <1>1, CurrentIsThere
<1> DEFINE Goal ==
        /\ used' \in [Bats -> Seq(Int)] /\ steps' \in Nat
        /\ fsm' \in Searching \cup {"finished"}
        /\ fsm' \in Searching =>
               /\ steps' = steps + 1
               /\ \A b \in Bats : Len(used'[b]) = Len(used[b]) + 1
        /\ fsm' = "finished" => steps' = steps
<1>5. ASSUME NEW reachable, NEW value, \A b \in Bats : value[b] \in Int,
             NEW status \in Searching, NextStep(reachable, value, status)
      PROVE  Goal
  <2>1. PICK done \in SUBSET reachable :
            /\ Order(done, value)
            /\ IF done = Bats
               THEN fsm' = status /\ steps' = steps + 1
               ELSE fsm' = "finished" /\ steps' = steps
      BY <1>5 DEF NextStep, Abort
  <2>2. /\ used' \in [Bats -> Seq(Int)]
        /\ done = Bats => \A b \in Bats : Len(used'[b]) = Len(used[b]) + 1
      BY <1>5, <2>1, OrderAppends
  <2>3. QED BY <1>5, <2>1, <2>2 DEF Data, Searching
<1>6. ASSUME SearchUp(m) \/ SearchDown(m) PROVE Goal
  <2>1. \/ NextStep(Bats, Up, "search")
        \/ NextStep({b \in Bats : used[b][candidate] <= Down[b]}, Down, "search_down")
      BY <1>6 DEF SearchUp, SearchDown
  <2>2. QED BY <1>4, <1>5, <2>1 DEF Searching
<1>7. ASSUME SearchTurn(m) PROVE Goal
  <2>1. \/ fsm' = "finished" /\ UNCHANGED <<used, steps>>
        \/ NextStep(Bats, Down, "search_down")
      BY <1>7 DEF SearchTurn, Abort
  <2>2. QED BY <1>4, <1>5, <2>1 DEF Searching, Data
<1>8. ASSUME FoundDC(m) PROVE Goal
  <2> DEFINE part == [b \in Bats |-> (8 * Current[b]) \div 10]
  <2>1. PICK done \in SUBSET Bats :
            /\ Order(done, part)
            /\ IF done = Bats
               THEN fsm' = "validate" /\ steps' = steps + 1
               ELSE fsm' = "finished" /\ steps' = steps
      BY <1>8 DEF FoundDC, Abort
  <2>2. \A b \in Bats : part[b] \in Int
      BY <1>4
  <2> HIDE DEF part
  <2>3. /\ used' \in [Bats -> Seq(Int)]
        /\ done = Bats => \A b \in Bats : Len(used'[b]) = Len(used[b]) + 1
      BY <2>1, <2>2, OrderAppends
  <2>4. QED BY <2>1, <2>3 DEF Data, Searching
<1>9. ASSUME FoundEC(m) \/ Validate(m) PROVE Goal
  <2>1. fsm' = "finished" /\ UNCHANGED <<used, steps>>
      BY <1>9 DEF FoundEC, Validate, Publish, Abort
  <2>2. QED BY <2>1 DEF Data, Searching
<1>10. Goal
    BY <1>6, <1>7, <1>8, <1>9 DEF Period
<1>11. QED BY <1>3, <1>10

(* A period publishes what it measured and found good, or nothing. *)
LEMMA PeriodPublishes ==
    ASSUME NEW m, Period(m)
    PROVE  \/ reference' = reference
           \/ /\ fsm' = "finished" /\ reference' = Current /\ used' = used
              /\ Current \in passed'
<1>1. CASE SearchUp(m) \/ SearchTurn(m) \/ SearchDown(m) \/ FoundDC(m)
    BY <1>1 DEF SearchUp, SearchTurn, SearchDown, FoundDC
<1>2. CASE FoundEC(m)
    BY <1>2 DEF FoundEC, Publish, Period, Meets
<1>3. CASE Validate(m)
    BY <1>3 DEF Validate, Publish, Period, Meets
<1>4. QED BY <1>1, <1>2, <1>3 DEF Period

(* The first orders: all of them, or the search is over. *)
LEMMA StartOrders ==
    ASSUME IndInv, NEW b \in Bats, StartBat(b)
    PROVE  \/ UNCHANGED <<used, steps, period_load, fsm>> /\ exec' = exec
           \/ /\ exec' = "loadgen" /\ steps' = 1
              /\ UNCHANGED period_load /\ period_load = <<>>
              /\ used' \in [Bats -> Seq(Int)]
              /\ \/ fsm' = "finished"
                 \/ fsm' = "search" /\ \A c \in Bats : Len(used'[c]) = 1
<1>1. exec = "start" /\ steps = 0 /\ period_load = <<>>
    BY DEF StartBat, IndInv, Fresh
<1>2. CASE pending' = {}
  <2>1. PICK done \in SUBSET Bats : FirstRefresh(done)
      BY <1>2 DEF StartBat
  <2>2. /\ used' = [c \in Bats |-> IF c \in done THEN <<Initial[c]>> ELSE <<>>]
        /\ \A c \in Bats : Initial[c] \in Int
      BY <2>1, CapacityAssumption DEF FirstRefresh
  <2>3. \A c \in Bats : /\ <<Initial[c]>> \in Seq(Int) /\ <<>> \in Seq(Int)
                        /\ Len(<<Initial[c]>>) = 1
      BY <2>2
  <2>4. QED BY <1>1, <1>2, <2>1, <2>2, <2>3 DEF StartBat, FirstRefresh
<1>3. CASE pending' # {}
    BY <1>3 DEF StartBat, searching
<1>4. QED BY <1>2, <1>3

----------------------------------------------------------------------------
LEMMA StepKeepsSearch ==
    ASSUME IndInv, [Next]_vars
    PROVE  (Data /\ Fresh /\ Steps)'
<1>1. CASE Aside
  <2>1. UNCHANGED <<used, steps, period_load, fsm, reference>>
      BY <1>1, AsideLeavesSearch
  <2>2. Data'
      BY <2>1 DEF IndInv, Data
  <2>3. Fresh'
      BY <1>1, <2>1 DEF IndInv, Fresh, Aside, StartExecution, ReadCps, LockFails,
             PeriodWithoutLoad, RefreshSlots, RefreshFails, StopPhase,
             ActionHandlerStops, Interrupt, Shutdown, vars
  <2>4. exec' = "done" /\ ~bats_told' =>
            cfg'.validation /\ steps' > Len(period_load')
      BY <1>1, <2>1 DEF IndInv, Steps, Aside, StartExecution, ReadCps, LockFails,
             PeriodWithoutLoad, RefreshSlots, RefreshFails, StopPhase,
             ActionHandlerStops, Interrupt, Shutdown, vars
  <2>5. QED BY <2>1, <2>2, <2>3, <2>4 DEF IndInv, Steps
<1>2. ASSUME NEW b \in Bats, StartBat(b) PROVE (Data /\ Fresh /\ Steps)'
  <2>1. exec = "start" /\ fsm = "initial" /\ reference = None
      BY <1>2 DEF StartBat, IndInv, Fresh
  <2>2. reference' = reference
      BY <1>2 DEF StartBat
  <2>3. CASE UNCHANGED <<used, steps, period_load, fsm>> /\ exec' = exec
      BY <2>1, <2>2, <2>3 DEF IndInv, Data, Fresh, Steps, Searching
  <2>4. CASE /\ exec' = "loadgen" /\ steps' = 1
             /\ UNCHANGED period_load /\ period_load = <<>>
             /\ used' \in [Bats -> Seq(Int)]
             /\ \/ fsm' = "finished"
                \/ fsm' = "search" /\ \A c \in Bats : Len(used'[c]) = 1
      BY <2>4 DEF IndInv, Data, Fresh, Steps, Searching
  <2>5. QED BY <1>2, <2>3, <2>4, StartOrders
<1>3. ASSUME NEW m \in Measures, Period(m) PROVE (Data /\ Fresh /\ Steps)'
  <2>1. exec = "loadgen" /\ exec' = exec /\ fsm \in Searching
      BY <1>3 DEF Period, Searching
  <2>2. /\ \A b \in Bats : Len(used[b]) = steps
        /\ steps = Len(period_load) + 1 /\ Len(period_load) \in Nat
      BY <2>1 DEF IndInv, Steps, Data
  <2>3. /\ used' \in [Bats -> Seq(Int)] /\ steps' \in Nat
        /\ period_load' \in Seq(Loads)
        /\ Len(period_load') = Len(period_load) + 1
        /\ fsm' \in Searching \cup {"finished"}
        /\ fsm' \in Searching =>
               /\ steps' = steps + 1
               /\ \A b \in Bats : Len(used'[b]) = Len(used[b]) + 1
        /\ fsm' = "finished" => steps' = steps
      BY <1>3, PeriodSteps
  <2>4. Data' /\ Fresh'
      BY <2>1, <2>3 DEF Data, Fresh
  <2>5. fsm' \in Searching => \A b \in Bats : Len(used'[b]) = steps'
      BY <2>2, <2>3
  <2>6. /\ fsm' \in Searching => steps' = Len(period_load') + 1
        /\ fsm' = "finished" => steps' <= Len(period_load')
      BY <2>2, <2>3
  <2>7. QED BY <2>1, <2>4, <2>5, <2>6 DEF Steps
<1>4. QED BY <1>1, <1>2, <1>3, NextSplit

LEMMA StepKeepsMeasured ==
    ASSUME IndInv, [Next]_vars
    PROVE  Measured'
<1>1. CASE Aside
    BY <1>1, AsideLeavesSearch DEF IndInv, Measured, Current
<1>2. ASSUME NEW b \in Bats, StartBat(b) PROVE Measured'
    BY <1>2 DEF StartBat, IndInv, Fresh, Measured
<1>3. ASSUME NEW m \in Measures, Period(m) PROVE Measured'
  <2>1. reference = None
      BY <1>3 DEF Period, IndInv, Measured
  <2>2. QED BY <1>3, <2>1, PeriodPublishes DEF Measured, Current
<1>4. QED BY <1>1, <1>2, <1>3, NextSplit

LEMMA StepKeepsPayload ==
    ASSUME IndInv, [Next]_vars
    PROVE  Payload'
<1> USE DEF IndInv, Payload, Underway
<1>1. CASE StartExecution
    BY <1>1 DEF StartExecution, ghosts
<1>2. ASSUME NEW ok \in BOOLEAN, NEW works \in BOOLEAN, ReadCps(ok, works)
      PROVE  Payload'
  <2>1. exec' = exec
      BY <1>2 DEF ReadCps
  <2>2. CASE locked' = locked /\ UNCHANGED ghosts /\ reader'.running
      BY <2>1, <2>2 DEF ghosts
  <2>3. CASE UnlockPL(works)
      BY <2>1, <2>3 DEF UnlockPL
  <2>4. QED BY <1>2, <2>2, <2>3 DEF ReadCps
<1>3. ASSUME NEW b \in Bats, StartBat(b) PROVE Payload'
    BY <1>3 DEF StartBat, LockPL, ghosts
<1>4. ASSUME NEW after \in BOOLEAN, LockFails(after) PROVE Payload'
    BY <1>4 DEF LockFails, LockPL, ghosts
<1>5. ASSUME NEW m \in Measures, Period(m) PROVE Payload'
  <2>1. exec = "loadgen" /\ exec' = exec /\ reader' = reader
      BY <1>5 DEF Period
  <2>2. \/ UNCHANGED <<locked, ghosts>>
        \/ \E works \in BOOLEAN : UnlockPL(works)
      BY <1>5 DEF Period, SearchUp, SearchTurn, SearchDown, FoundEC, FoundDC, Validate
  <2>3. QED BY <2>1, <2>2 DEF UnlockPL, ghosts
<1>6. ASSUME NEW works \in BOOLEAN, Shutdown(works) PROVE Payload'
    BY <1>6 DEF Shutdown, UnlockPL, ghosts
<1>7. CASE PeriodWithoutLoad
    BY <1>7 DEF PeriodWithoutLoad, ghosts
<1>8. CASE RefreshFails
    BY <1>8 DEF RefreshFails, ghosts
<1>9. CASE StopPhase
    BY <1>9 DEF StopPhase, ghosts
<1>10. CASE ActionHandlerStops
    BY <1>10 DEF ActionHandlerStops, ghosts
<1>11. CASE Interrupt
    BY <1>11 DEF Interrupt, ghosts
<1>12. CASE UNCHANGED vars
    BY <1>12 DEF vars, ghosts
<1>13. ASSUME NEW over \in SUBSET Bats, RefreshSlots(over) PROVE Payload'
    BY <1>13 DEF RefreshSlots, ghosts
<1>14. QED BY <1>1, <1>2, <1>3, <1>4, <1>5, <1>6, <1>7, <1>8, <1>9, <1>10,
        <1>11, <1>12, <1>13 DEF Next, Over

(* The books of the capacity search are always as IndInv says. *)
THEOREM IndInvHolds == Spec => []IndInv
<1>1. Init => IndInv
    BY DEF Init, IndInv, Data, Fresh, Steps, Measured, Payload, Searching, Underway
<1>2. IndInv /\ [Next]_vars => IndInv'
    BY StepKeepsSearch, StepKeepsMeasured, StepKeepsPayload DEF IndInv
<1>3. QED BY <1>1, <1>2, PTL DEF Spec

(* For any BATs, slots and bounds: once the search is over the load of     *)
(* every step is on record, so that scheduling_info() raises nothing and   *)
(* the clean-up goes on to stop the traffic, unless the first order failed.*)
THEOREM EveryStepOnRecord == Spec => []StepsOnRecord
<1>1. IndInv => StepsOnRecord
    BY DEF IndInv, Data, Steps, StepsOnRecord, Searching
<1>2. QED BY <1>1, IndInvHolds, PTL

(* A traffic reference is never but what a good period measured last. *)
THEOREM OnlyMeasuredIsPublished == Spec => []ReferenceWasMeasured
<1>1. IndInv => ReferenceWasMeasured
    BY DEF IndInv, Measured, ReferenceWasMeasured
<1>2. QED BY <1>1, IndInvHolds, PTL

(* The payload taken for DC comes back, unless the cabinet refused the     *)
(* last order to unlock it or it was locked with no reader running.        *)
THEOREM PayloadComesBack == Spec => []PayloadBack
<1>1. IndInv => PayloadBack
    BY DEF IndInv, Payload, PayloadBack
<1>2. QED BY <1>1, IndInvHolds, PTL
=============================================================================
