---------------------------- MODULE BuildHandler ----------------------------
(***************************************************************************)
(* The RTC build handler: a D-Bus service that answers one request at a    *)
(* time and keeps its data base in memory and in the file db.json.         *)
(*                                                                         *)
(* update_db opens the file for writing, which empties it, and then dumps  *)
(* the data base; the file is Torn in between.  A request ends only when   *)
(* the dump is complete, but the process can die at any moment.  A request *)
(* that raises changes nothing and is not a step, apart from the two whose *)
(* exception comes after a change of memory (see PriorityDelUnknown).      *)
(***************************************************************************)
EXTENDS BuildDB

CONSTANTS
    Missing,        \* there is no db.json
    Torn,           \* db.json was emptied and not yet written again
    StatusCalls,    \* the statuses requests come with, legal or not
    InfoCalls,      \* the test_info contents requests come with
    MaxResults      \* bound: test results kept for one build

ASSUME InputsAssumption ==
    InfoCalls \subseteq TestInfo /\ MaxResults \in Nat

VARIABLES
    file,       \* db.json
    up,         \* the process runs
    todo,       \* clean_build: matching builds not looked at yet
    current     \* clean_build: build out of the queue, record still there

vars == <<db, file, up, todo, current>>

Whole(f) == f \notin {Missing, Torn}

Idle == up /\ file # Torn /\ todo = {} /\ current = None

TypeOK ==
    /\ DBType(db)
    /\ Whole(file) => DBType(file)
    /\ up \in BOOLEAN
    /\ todo \subseteq Known(db)
    /\ current \in Known(db) \cup {None}
    /\ \A b \in Known(db) : Len(db.build_info[b].test_result) <= MaxResults

Init ==
    /\ db = EmptyDB
    /\ file = Missing
    /\ up = FALSE
    /\ todo = {}
    /\ current = None

----------------------------------------------------------------------------
(* __init__: a missing file is created, a torn one stops the service *)
Start ==
    /\ ~up
    /\ file # Torn
    /\ up' = TRUE
    /\ IF file = Missing THEN db' = EmptyDB /\ file' = Torn
                         ELSE db' = file /\ UNCHANGED file
    /\ UNCHANGED <<todo, current>>

(* update_db, first half: memory is up to date, the file is emptied *)
Save(d) == db' = d /\ file' = Torn

(* the step of a request that changes the data base and saves it *)
Request(d) == Idle /\ Save(d) /\ UNCHANGED <<up, todo, current>>

(* update_db, second half: json.dump *)
Dump ==
    /\ up
    /\ file = Torn
    /\ file' = db
    /\ UNCHANGED <<db, up, todo, current>>

(* the process dies, possibly between the two halves of update_db or       *)
(* halfway through clean_build                                             *)
Crash ==
    /\ up
    /\ up' = FALSE
    /\ db' = EmptyDB
    /\ todo' = {}
    /\ current' = None
    /\ UNCHANGED file

----------------------------------------------------------------------------
UpdateBuildStatus(b, s) ==
    /\ s \in Status
    /\ b \in Known(db)
    /\ Request(set_status(db, b, s))

(* mutant: the new record is not saved *)
MutantBuildInfoAdd(b, info) ==
    /\ Idle
    /\ b \notin Known(db)
    /\ db' = build_info_add(db, b, info)
    /\ UNCHANGED <<file, up, todo, current>>

BuildInfoAdd(b, info) ==
    /\ b \notin Known(db)
    /\ Request(build_info_add(db, b, info))

BuildInfoUpdate(b, info) ==
    /\ b \in Known(db)
    /\ db.build_info[b].test_info # EmptyInfo
    /\ Request(build_info_update(db, b, info))

PriorityAdd(b) ==
    /\ b \in Known(db)
    /\ Request(priority_add(db, b))

(* A project without an entry ends the request with nothing changed. *)
PriorityDel(b, update_status) ==
    /\ ProjectOf[b] \in DOMAIN db.priority
    /\ update_status => b \in Known(db)
    /\ Request(priority_del(db, b, update_status))

(* The status of a build that has no record cannot be changed: priority_del*)
(* returns early, after it took the build out and before it saves.         *)
PriorityDelUnknown(b) ==
    /\ Idle
    /\ ProjectOf[b] \in DOMAIN db.priority
    /\ b \notin Known(db)
    /\ db' = priority_del(db, b, TRUE)
    /\ UNCHANGED <<file, up, todo, current>>

PriorityIncrease(b) ==
    /\ ProjectOf[b] \in DOMAIN db.priority
    /\ Request(priority_increase(db, b))

BaselineAdd(b) ==
    /\ b \in Known(db)
    /\ Request(baseline_add(db, b))

BaselineDel(r) == Request(baseline_del(db, r))

AddBuildTestResult(b, res) ==
    /\ b \in Known(db)
    /\ Len(db.build_info[b].test_result) < MaxResults
    /\ Request(add_build_test_result(db, b, res))

ForceBuildStatus(b, s) ==
    /\ s \in {"CANCELLED", "SKIPPED", "TESTED", "TEST_FAULTY"}
    /\ b \in Known(db)
    /\ Request(set_status(db, b, s))

(* get_build: the build leaves the queue and the queue is saved before     *)
(* test_info is looked up, so a build without a record is lost as well.    *)
GetBuild ==
    /\ is_there_build_to_test(db)
    /\ Request(extract(db))

(* update_build_test_info: saved only when asked to *)
UpdateBuildTestInfo(b, info, persist) ==
    LET d == IF b \in Known(db) THEN set_info(db, b, info) ELSE db
    IN  IF persist THEN Request(d)
        ELSE Idle /\ db' = d /\ UNCHANGED <<file, up, todo, current>>

PurgeBuild(w) == Request(purge_build(db, w))

RefreshFromFile ==
    /\ Idle
    /\ Whole(file)
    /\ db' = file
    /\ UNCHANGED <<file, up, todo, current>>

----------------------------------------------------------------------------
(* clean_build looks at the matching builds one by one, in the order of    *)
(* the dictionary; priority_del saves the data base for each of them.      *)
CleanBuild(w, exclude) ==
    /\ Idle
    /\ todo' = (Matches[w] \cap Known(db)) \ {exclude}
    /\ IF todo' = {} THEN Save(clean_priority(db)) ELSE UNCHANGED <<db, file>>
    /\ UNCHANGED <<up, current>>

Cleaning(b) == up /\ file # Torn /\ current = None /\ b \in todo

(* The last build of the list is followed by the final clean_priority and  *)
(* update_db.                                                              *)
Continue(b, d) ==
    /\ todo' = todo \ {b}
    /\ IF todo' = {} THEN Save(clean_priority(d)) ELSE db' = d /\ UNCHANGED file

CleanOngoing(b) ==
    /\ Cleaning(b)
    /\ db.build_info[b].status = "TEST_ONGOING"
    /\ Continue(b, db)
    /\ UNCHANGED <<up, current>>

(* mutant: an ongoing test does not keep its build from being cleaned *)
MutantCleanDequeue(b) ==
    /\ Cleaning(b)
    /\ current' = b
    /\ IF ProjectOf[b] \in DOMAIN db.priority
       THEN Save(priority_del(db, b, FALSE))
       ELSE UNCHANGED <<db, file>>
    /\ UNCHANGED <<up, todo>>

CleanDequeue(b) ==
    /\ Cleaning(b)
    /\ db.build_info[b].status # "TEST_ONGOING"
    /\ current' = b
    /\ IF ProjectOf[b] \in DOMAIN db.priority
       THEN Save(priority_del(db, b, FALSE))
       ELSE UNCHANGED <<db, file>>
    /\ UNCHANGED <<up, todo>>

(* mutant: baselines are cleaned like any other build *)
MutantCleanRecord ==
    /\ up /\ file # Torn /\ current # None
    /\ Continue(current, [db EXCEPT !.build_info = Without(@, {current})])
    /\ current' = None
    /\ UNCHANGED up

CleanRecord ==
    /\ up /\ file # Torn /\ current # None
    /\ Continue(current, drop_record(db, current))
    /\ current' = None
    /\ UNCHANGED up

Next ==
    \/ Start \/ Dump \/ Crash
    \/ \E b \in Builds, i \in InfoCalls : BuildInfoAdd(b, i)
    \/ \E b \in Builds, i \in InfoCalls : BuildInfoUpdate(b, i)
    \/ \E b \in Builds : PriorityAdd(b)
    \/ \E b \in Builds, u \in BOOLEAN : PriorityDel(b, u)
    \/ \E b \in Builds : PriorityDelUnknown(b)
    \/ \E b \in Builds : PriorityIncrease(b)
    \/ \E b \in Builds : BaselineAdd(b)
    \/ \E r \in Releases : BaselineDel(r)
    \/ \E b \in Builds, res \in Results : AddBuildTestResult(b, res)
    \/ \E b \in Builds, s \in StatusCalls : UpdateBuildStatus(b, s)
    \/ \E b \in Builds, s \in StatusCalls : ForceBuildStatus(b, s)
    \/ GetBuild
    \/ \E b \in Builds, i \in InfoCalls, p \in BOOLEAN :
           UpdateBuildTestInfo(b, i, p)
    \/ \E w \in Wildcards : PurgeBuild(w)
    \/ RefreshFromFile
    \/ \E w \in Wildcards, e \in Builds \cup {None} : CleanBuild(w, e)
    \/ \E b \in Builds : CleanOngoing(b)
    \/ \E b \in Builds : CleanDequeue(b)
    \/ CleanRecord

Spec == Init /\ [][Next]_vars

----------------------------------------------------------------------------
(* Every queued build is announced (it has a record get_build can return), *)
(* is queued under its own project and only once.                          *)
QueueSoundIn(d) ==
    \A p \in DOMAIN d.priority :
        LET q == d.priority[p].pending
        IN  /\ \A i \in DOMAIN q : q[i] \in Known(d) /\ ProjectOf[q[i]] = p
            /\ \A i, j \in DOMAIN q : q[i] = q[j] => i = j

(* The pending lists are sound in memory and, whenever the process dies,   *)
(* in the file a restart reads back: clean_build unqueues a build before   *)
(* it drops its record and saves in between.                               *)
QueueSound == QueueSoundIn(db) /\ (Whole(file) => QueueSoundIn(file))

(* A baseline always names a build whose record (and so whose test_info,   *)
(* the base of every later test) still exists, in memory and in the file.  *)
BaselinesKept ==
    /\ Baselined(db) \subseteq Known(db)
    /\ Whole(file) => Baselined(file) \subseteq Known(file)

(* What a request answered is on disk: between requests the file agrees    *)
(* with memory on the builds, their status and results, the baselines and  *)
(* the pending lists.  Left out are what may differ by design (test_info   *)
(* set without persist) and what PriorityDelUnknown leaves behind (a high  *)
(* priority build without record).                                         *)
SavedAtRest ==
    Idle /\ Whole(file) =>
        /\ Known(file) = Known(db)
        /\ \A b \in Known(db) :
               /\ file.build_info[b].status = db.build_info[b].status
               /\ file.build_info[b].test_result = db.build_info[b].test_result
        /\ file.baselines = db.baselines
        /\ Waiting(file) = Waiting(db)
        /\ \A p \in Waiting(db) :
               file.priority[p].pending = db.priority[p].pending
        /\ \A p \in DOMAIN db.priority :
               db.priority[p].high_priority \in Known(db) =>
                   /\ p \in DOMAIN file.priority
                   /\ file.priority[p].high_priority =
                          db.priority[p].high_priority

(* A build under test, and a build some baseline names, never loses its    *)
(* record, whatever clean_build is asked for; reloading the file does not  *)
(* lose one either.                                                        *)
RecordsKept ==
    [][\A b \in Known(db) :
           up /\ up' /\ b \notin Known(db)' =>
               /\ db.build_info[b].status # "TEST_ONGOING"
               /\ b \notin Baselined(db)]_vars
=============================================================================
