------------------------------- MODULE Alarms --------------------------------
(***************************************************************************)
(* The two threads that follow the alarms of a CBA node                     *)
(* (hss_utils.node.cba): AlarmMonitor, which HSS_rtc runs during a phase    *)
(* and which compares the list of active alarms with the one of its last    *)
(* sample, and AlarmLogEventHandler, which the test cases run and which     *)
(* reads the alarm log, a log that is rotated. Alarms come and go, the node *)
(* goes away and comes back, and the owner shuts the thread down, between   *)
(* any two commands of a sample. One behaviour has one of the two threads.  *)
(***************************************************************************)
EXTENDS Integers, Sequences, FiniteSets, SequencesExt

CONSTANTS
    AlarmIds,   \* alarms the node may raise, each once
    MaxFiles,   \* bound: files of the alarm log
    MaxOutages  \* bound: times the node goes away

VARIABLES
    thread,     \* the thread of this behaviour: "monitor" or "handler"
    active,     \* alarms in the node's list
    log,        \* records of the alarm log: alarm, kind, time and file
    file,       \* the active log file
    up,         \* the node answers
    outages,
    m,          \* the AlarmMonitor
    h,          \* the AlarmLogEventHandler
    stop,       \* shutdown by the owner: "no", "sleep" (it waits a sample), "done"
    hist        \* history: see HistoryOK

node == <<thread, active, log, file, up, outages>>
alarmsVars == <<node, m, h, stop, hist>>

Raised == {log[i].alarm : i \in 1 .. Len(log)}

\* initial: alarms active when the monitor connected; broken: an exception cut a
\* sample short; gap: a log file was left behind with records not read; seen: records the handler has read; from: those before its start.
HistoryOK ==
    hist \in [initial : SUBSET AlarmIds, broken : BOOLEAN, gap : BOOLEAN,
              seen : Nat, from : Nat]

-----------------------------------------------------------------------------
(* The node.                                                                *)

\* Records have distinct times: the handler drops a record with the time of the one
\* before (process_event), and the source does not say how fine LogTimestamp is.
Record(a, kind) ==
    log' = Append(log, [alarm |-> a, kind |-> kind, time |-> Len(log) + 1, file |-> file])

AlarmRaised(a) ==
    /\ a \notin Raised
    /\ Record(a, "raise") /\ active' = active \cup {a}
    /\ UNCHANGED <<thread, file, up, outages, m, h, stop, hist>>

AlarmCleared(a) ==
    /\ a \in active
    /\ Record(a, "clear") /\ active' = active \ {a}
    /\ UNCHANGED <<thread, file, up, outages, m, h, stop, hist>>

\* Only the handler has to do with the log: the other behaviours keep one file.
LogRotated ==
    /\ thread = "handler" /\ file < MaxFiles /\ \E i \in 1 .. Len(log) : log[i].file = file
    /\ file' = file + 1
    /\ UNCHANGED <<thread, active, log, up, outages, m, h, stop, hist>>

NodeLost ==
    /\ up /\ outages < MaxOutages
    /\ up' = FALSE /\ outages' = outages + 1
    /\ UNCHANGED <<thread, active, log, file, m, h, stop, hist>>

NodeBack ==
    /\ ~up /\ up' = TRUE
    /\ UNCHANGED <<thread, active, log, file, outages, m, h, stop, hist>>

-----------------------------------------------------------------------------
(* AlarmMonitor.                                                            *)

NoMonitor == [pc |-> "off", running |-> FALSE, conn |-> FALSE, last |-> {}, current |-> {},
              todo |-> {}, db |-> [a \in AlarmIds |-> "none"]]

\* start_monitoring: the thread is started even when the connection failed.
start_monitoring ==
    /\ thread = "monitor" /\ m.pc = "off" /\ stop = "no"
    /\ m' = [m EXCEPT !.pc = "initial", !.running = up, !.conn = up]
    /\ hist' = [hist EXCEPT !.initial = active]
    /\ UNCHANGED <<node, h, stop>>

\* A command on a node that is away: an EOF or a timeout of the command is caught
\* and leads to reconnect; what the creation of a new session raises is not caught
\* and ends the thread, and so does a connection released by shutdown.
CommandFails ==
    /\ ~up \/ ~m.conn
    /\ \/ m.conn /\ m' = [m EXCEPT !.pc = "reconnect"]
       \/ m' = [m EXCEPT !.pc = "dead"]
    /\ hist' = [hist EXCEPT !.broken = TRUE]

\* run: the alarms that are there already.
InitialRead ==
    /\ m.pc = "initial"
    /\ \/ up /\ m.conn /\ UNCHANGED hist
          /\ m' = [m EXCEPT !.pc = "initial_store", !.last = active, !.todo = active]
       \/ CommandFails
    /\ UNCHANGED <<node, h, stop>>

\* add_alarm_info: the data of an alarm that has gone from the list is not found,
\* without a connection nothing is done.
add_alarm_info(a, state) ==
    \/ /\ up \/ ~m.conn
       /\ m' = [m EXCEPT !.todo = @ \ {a}, !.db[a] = IF m.conn /\ a \in active THEN state ELSE @]
       /\ UNCHANGED hist
    \/ m.conn /\ CommandFails

InitialStore ==
    /\ m.pc = "initial_store"
    /\ \/ \E a \in m.todo : add_alarm_info(a, "Initial")
       \/ m.todo = {} /\ m' = [m EXCEPT !.pc = "loop"] /\ UNCHANGED hist
    /\ UNCHANGED <<node, h, stop>>

\* run: while online. The sample reads the list; the new alarms are stored one
\* command each, the cleared ones are only marked.
SampleBegins ==
    /\ m.pc = "loop"
    /\ m' = [m EXCEPT !.pc = IF m.running THEN "read" ELSE "ended"]
    /\ UNCHANGED <<node, h, stop, hist>>

SampleRead ==
    /\ m.pc = "read"
    /\ \/ up /\ m.conn /\ UNCHANGED hist
          /\ m' = [m EXCEPT !.pc = "store", !.current = active, !.todo = active \ m.last]
       \/ CommandFails
    /\ UNCHANGED <<node, h, stop>>

StoreNew ==
    /\ m.pc = "store" /\ \E a \in m.todo : add_alarm_info(a, "New")
    /\ UNCHANGED <<node, h, stop>>

\* Mutant: an alarm that cleared is dropped from the list without being marked.
Mutant_clear_alarm_info(a) == m.db[a]

clear_alarm_info(a) == IF m.db[a] = "none" THEN "none" ELSE "Cleared"

SampleEnds ==
    /\ m.pc = "store" /\ m.todo = {}
    /\ m' = [m EXCEPT !.pc = "loop", !.last = m.current,
                      !.db = [a \in AlarmIds |-> IF a \in m.last \ m.current THEN clear_alarm_info(a)
                                                 ELSE @[a]]]
    /\ UNCHANGED <<node, h, stop, hist>>

\* reconnect: until the session is made. After five minutes it calls shutdown, which
\* does not end its loop: allow_reconnection stays True in AlarmMonitor.
reconnect ==
    /\ m.pc = "reconnect"
    /\ \/ up /\ m.conn /\ m' = [m EXCEPT !.pc = "loop", !.running = TRUE]
       \/ ~(up /\ m.conn) /\ m' = [m EXCEPT !.running = FALSE, !.conn = FALSE]
    /\ UNCHANGED <<node, h, stop, hist>>

MonitorStep ==
    InitialRead \/ InitialStore \/ SampleBegins \/ SampleRead \/ StoreNew \/ SampleEnds \/ reconnect

\* AlarmMonitor.shutdown: the thread is told, given a sampling time, and loses its
\* connection whatever it is doing.
MonitorShutdown ==
    /\ m.pc # "off"
    /\ \/ /\ stop = "no"
          /\ stop' = IF m.conn THEN "sleep" ELSE "done"
          /\ m' = [m EXCEPT !.running = FALSE]
       \/ stop = "sleep" /\ stop' = "done" /\ m' = [m EXCEPT !.conn = FALSE]
    /\ UNCHANGED <<node, h, hist>>

-----------------------------------------------------------------------------
(* AlarmLogEventHandler. Of a sample, files are those to read and bare those   *)
(* of them listed under the name a file has while it is the active one; again  *)
(* says that last_log has made the connection anew in the middle of the sample.*)

NoHandler == [pc |-> "off", running |-> FALSE, conn |-> FALSE, force |-> FALSE, allow |-> TRUE,
              first |-> TRUE, lastlog |-> 0, lasttime |-> 0, files |-> {}, bare |-> {},
              again |-> FALSE,
              ev |-> [a \in AlarmIds |-> "none"]]

\* The places in the log of the records of a set of files.
RecordsOf(files) == {i \in 1 .. Len(log) : log[i].file \in files}

\* start_handling, with initialize_last_processed_event: the time of the last
\* record of the active log; without a connection, or without an active log, the
\* thread is never started.
start_handling ==
    /\ thread = "handler" /\ h.pc = "off" /\ stop = "no"
    /\ LET old == RecordsOf({file}) IN
       \/ up /\ h' = [h EXCEPT !.pc = "list", !.running = TRUE, !.conn = TRUE, !.lastlog = file,
                               !.lasttime = IF old = {} THEN 0 ELSE log[Max(old)].time]
       \/ h' = [h EXCEPT !.pc = "ended", !.force = TRUE]
    /\ hist' = [hist EXCEPT !.seen = Len(log), !.from = Len(log)]
    /\ UNCHANGED <<node, m, stop>>

\* A command that fails inside process_events.
ProcessFails ==
    /\ ~up \/ ~h.conn
    /\ \/ h.conn /\ h' = [h EXCEPT !.pc = "reconnect", !.first = FALSE, !.again = FALSE]
       \/ h' = [h EXCEPT !.pc = "dead"]

\* log_to_process, find_logs: the last log, whatever its name is by now. A listing
\* that finds nothing ends the sample.
FindLogs ==
    /\ h.pc = "list"
    /\ \/ /\ up /\ h.conn
          /\ \/ h' = [h EXCEPT !.pc = "active", !.files = {h.lastlog},
                               !.bare = {h.lastlog} \cap {file}]
             \/ h' = [h EXCEPT !.pc = "loop", !.first = FALSE]
       \/ ProcessFails
    /\ UNCHANGED <<node, m, stop, hist>>

\* Mutant: only the active log is read.
Mutant_log_to_process == {file}

\* The files listed, and the active log when it is another one.
log_to_process == h.files \cup {file}

\* Records not read are in a file before the active one which the sample does not
\* reach: it is not the last log, or it was listed as the active one and is not any more.
LeftBehind ==
    \E i \in (hist.seen + 1) .. Len(log) :
        log[i].file < file /\ (log[i].file # h.lastlog \/ h.lastlog \in h.bare)

\* log_to_process, last_log: a second command finds the active log, which is the
\* last one from now on. When there is none, last_log makes the connection anew and
\* asks once more; a name that is None then ends the thread.
LastLog ==
    /\ h.pc = "active"
    /\ \/ /\ up /\ h.conn
          /\ h' = [h EXCEPT !.pc = "cat", !.files = log_to_process, !.bare = @ \cup {file},
                            !.lastlog = file, !.again = FALSE]
          /\ hist' = [hist EXCEPT !.gap = @ \/ LeftBehind]
       \/ /\ up /\ h.conn /\ UNCHANGED hist
          /\ h' = IF h.again THEN [h EXCEPT !.pc = "dead"]
                  ELSE [h EXCEPT !.pc = "reconnect", !.again = TRUE]
       \/ ProcessFails /\ UNCHANGED hist
    /\ UNCHANGED <<node, m, stop>>

\* One record: taken when it is later than the last one taken.
process_event(s, r) ==
    IF r.time <= s.lasttime THEN s
    ELSE [s EXCEPT !.lasttime = r.time,
                   !.ev[r.alarm] =
                      IF r.kind = "raise" THEN (IF h.first THEN "Initial" ELSE "New")
                      ELSE IF @ = "none" THEN "none" ELSE "Cleared"]

\* The records of a set of files one after the other, in the order of the log.
process_events(files) ==
    LET after[i \in 0 .. Len(log)] ==
            IF i = 0 THEN h
            ELSE IF i \in RecordsOf(files) THEN process_event(after[i - 1], log[i])
                 ELSE after[i - 1]
    IN  after[Len(log)]

\* The files under the names they had when they were listed: a log that was the
\* active one then is not found if it was rotated since.
Readable == {f \in h.files : f \in h.bare => f = file}

CatLogs ==
    /\ h.pc = "cat"
    /\ \/ /\ up /\ h.conn
          /\ h' = [process_events(Readable) EXCEPT !.pc = "loop", !.first = FALSE, !.files = {}]
          /\ hist' = [hist EXCEPT !.seen =
                        IF file = h.lastlog THEN Len(log)
                        ELSE Max({@} \cup {i \in 1 .. Len(log) : log[i].file < h.lastlog})]
       \/ /\ ProcessFails
          /\ hist' = [hist EXCEPT !.gap = @ \/ h.files # {h.lastlog}]
    /\ UNCHANGED <<node, m, stop>>

HandlerLoops ==
    /\ h.pc = "loop"
    /\ h' = [h EXCEPT !.pc = IF h.running /\ ~h.force THEN "list" ELSE "ended"]
    /\ UNCHANGED <<node, m, stop, hist>>

\* shutdown, as the thread itself calls it.
ShutDown(s) ==
    IF s.conn THEN [s EXCEPT !.force = TRUE, !.running = FALSE, !.allow = FALSE, !.conn = FALSE]
    ELSE [s EXCEPT !.force = TRUE, !.running = FALSE]

\* Where reconnect goes back to: the loop of run, or the middle of last_log, which
\* has no name to read when reconnect gave up.
GoesBack(s, done) ==
    [s EXCEPT !.pc = IF ~h.again THEN "loop" ELSE IF done THEN "active" ELSE "dead"]

\* reconnect, the outer loop: a new main connection, or the time is up.
HandlerReconnects ==
    /\ h.pc = "reconnect"
    /\ IF ~h.allow \/ h.force THEN h' = GoesBack(h, FALSE)
       ELSE \/ up /\ h.conn /\ h' = [h EXCEPT !.pc = "status"]
            \/ ~(up /\ h.conn) /\ h' = ShutDown(h)
    /\ UNCHANGED <<node, m, stop, hist>>

\* reconnect, the inner loop: wait for System Status OK.
WaitStatusOK ==
    /\ h.pc = "status"
    /\ IF h.force THEN h' = GoesBack(h, FALSE)
       ELSE \/ up /\ h.conn /\ h' = GoesBack([h EXCEPT !.running = TRUE], TRUE)
            \/ h' = ShutDown(h)
    /\ UNCHANGED <<node, m, stop, hist>>

HandlerStep == FindLogs \/ LastLog \/ CatLogs \/ HandlerLoops \/ HandlerReconnects \/ WaitStatusOK

\* shutdown by the test case.
HandlerShutdown ==
    /\ h.pc # "off"
    /\ \/ /\ stop = "no"
          /\ stop' = IF h.conn THEN "sleep" ELSE "done"
          /\ h' = [ShutDown(h) EXCEPT !.conn = h.conn]
       \/ stop = "sleep" /\ stop' = "done" /\ h' = [h EXCEPT !.conn = FALSE]
    /\ UNCHANGED <<node, m, hist>>

-----------------------------------------------------------------------------
AlarmsInit ==
    /\ active = {} /\ log = <<>> /\ file = 1 /\ up = TRUE /\ outages = 0
    /\ thread \in {"monitor", "handler"} /\ m = NoMonitor /\ h = NoHandler
    /\ stop = "no"
    /\ hist = [initial |-> {}, broken |-> FALSE, gap |-> FALSE, seen |-> 0, from |-> 0]

NodeStep ==
    \/ \E a \in AlarmIds : AlarmRaised(a) \/ AlarmCleared(a)
    \/ LogRotated \/ NodeLost \/ NodeBack

AlarmsNext ==
    \/ NodeStep
    \/ start_monitoring \/ MonitorStep \/ MonitorShutdown
    \/ start_handling \/ HandlerStep \/ HandlerShutdown

AlarmsSpec ==
    /\ AlarmsInit /\ [][AlarmsNext]_alarmsVars
    /\ WF_alarmsVars(MonitorStep) /\ WF_alarmsVars(HandlerStep)

-----------------------------------------------------------------------------
\* One type invariant for both threads.
AlarmsTypeOK ==
    /\ active \subseteq Raised /\ HistoryOK
    /\ m.pc \in {"off", "initial", "initial_store", "loop", "read", "store", "reconnect", "ended", "dead"}
    /\ m.db \in [AlarmIds -> {"none", "Initial", "New", "Cleared"}]
    /\ h.pc \in {"off", "list", "active", "cat", "loop", "reconnect", "status", "ended", "dead"}
    /\ h.ev \in [AlarmIds -> {"none", "Initial", "New", "Cleared"}]

\* Between two samples the monitor's database agrees with the node: what it calls
\* New was in the list of the last sample and was not there when it connected, and
\* an alarm of that list that is still active is known to it, unless shutdown has
\* taken the connection away. Only as long as no
\* exception cut a sample short: a New alarm stored by such a sample that clears
\* before the next one stays New for ever, and after a failed initial read the old
\* alarms are reported as New.
MonitorInStep ==
    m.pc = "loop" /\ ~hist.broken =>
        \A a \in AlarmIds :
            /\ m.db[a] = "New" => a \in m.last \ hist.initial
            /\ m.conn /\ a \in m.last \cap active => m.db[a] \in {"Initial", "New"}

\* The handler takes every record of the log once and in order, across rotations of
\* the log and reconnections: after a sample its state of an alarm is that of the
\* last record read. Not when a file was left behind with records not read, which
\* the sample that moves on to the active log can do in three ways: the log was
\* rotated twice since the sample before, it was rotated between the two listings of
\* this sample, or the connection was lost between the listings and the reading.
NoEventLost ==
    h.pc = "loop" /\ ~hist.gap =>
        \A a \in AlarmIds :
            LET own == {i \in (hist.from + 1) .. hist.seen : log[i].alarm = a} IN
            own # {} =>
                LET i == CHOOSE j \in own : \A k \in own : k <= j IN
                IF log[i].kind = "raise" THEN h.ev[a] \in {"Initial", "New"}
                                         ELSE h.ev[a] \in {"none", "Cleared"}

=============================================================================
