------------------------------- MODULE CbaNode -------------------------------
(***************************************************************************)
(* Scripts at work on a CBA node: the lines of the operations of            *)
(* CbaOperations and CbaQueries are carried out one by one on the shared    *)
(* CLISS session, while the node refuses lines, reports on its actions,     *)
(* reloads, and loses connections. A script runs one operation after the    *)
(* other and ends at the first that raises.                                 *)
(***************************************************************************)
EXTENDS CbaQueries

\* Every operation, with the arguments that change what it sends.
Operations ==
    Queries \cup Commands \cup
    {change_OwnGTAddress, delete_csr_cert_cliss, create_trusted_category_cliss,
     delete_trusted_category_cliss, enable_trusted_cert_cliss, disable_trusted_cert_cliss,
     config_cli_tls_cliss, delete_config_cli_tls_cliss, config_netconf_tls_cliss,
     delete_config_netconf_tls_cliss, config_flow_policy_cliss, delete_flow_policy_cliss,
     scale_in_payloads_cliss, run_CBA_schedule_backup, run_CBA_remove_schedule_backup,
     run_CBA_schedule_health_check, run_CBA_remove_schedule_health_check,
     run_CBA_create_backup, run_CBA_delete_backup, run_CBA_import_backup, run_CBA_export_backup,
     inst_csr_cert_cliss, inst_trusted_cert_cliss, nbi_lock_processor, nbi_unlock_processor,
     delete_trusted_cert_cliss, check_scaling_cliss, scalable_payloads_cliss}
    \cup {add_csr_cert_cliss(e) : e \in BOOLEAN}
    \cup {run_cliss_command(c) : c \in BOOLEAN}
    \cup {run_CBA_health_check(v) : v \in BOOLEAN}
    \cup {remove_dia_peer_node(d) : d \in BOOLEAN}
    \cup {unlock_traffic_modules(l) : l \in SUBSET {"IMS", "ESM"}}
    \cup {run_CBA_restore_backup(n, s) : n, s \in BOOLEAN}
    \cup {update_licenses(u) : u \in BOOLEAN}
    \cup {update_ntp_servers(ids, list) : ids \in 0 .. 2, list \in UNION {[1 .. n -> Ip] : n \in 1 .. 3}}

VARIABLES
    session,    \* the CLISS session: its link, the mode of the shell, edits not committed
    op,         \* the operation under way, prog being the lines still to come
    outcome,    \* "none" before the first operation, "running", "done", "failed"
    config,     \* what the operation's commits put in the configuration of the node
    report,     \* the node's progress report of the operation's level, if own of its action
    online,     \* the node answers
    reload,     \* the node is going to reload, or does
    polled,     \* run_CBA_restore_backup: what the last poll read
    refused,    \* history: the node refused a line whose answer nobody looks at
    foreign,    \* history: another client's action was accepted since the operation began
    early,      \* history: the wait for the reload to begin ended with the node up
    reloaded    \* history: the node went down since the operation began

cbaVars == <<session, op, outcome, config, report, online, reload, polled, refused, foreign, early,
          reloaded>>

history == <<refused, foreign, early, reloaded>>

NoSession == [link |-> "none", mode |-> "exec", pending |-> {}]
NoReport  == [state |-> "none", own |-> FALSE]

States == {"none", "RUNNING", "SUCCESS", "FAILURE", "CANCELLED"}

TypeOK ==
    /\ session.link \in {"none", "up", "broken"}
    /\ session.mode \in {"exec", "config"}
    /\ outcome \in {"none", "running", "done", "failed"}
    /\ report \in [state : States, own : BOOLEAN]
    /\ polled \in {"unbound", "RUNNING", "SUCCESS", "none"}
    /\ \A b \in {online, reload, refused, foreign, early, reloaded} : b \in BOOLEAN

CbaInit ==
    /\ session = NoSession
    /\ op = Operation("", <<>>)
    /\ outcome = "none"
    /\ config = {}
    /\ report = NoReport
    /\ online = TRUE /\ reload = FALSE
    /\ polled = "unbound"
    /\ refused = FALSE /\ foreign = FALSE /\ early = FALSE /\ reloaded = FALSE

-----------------------------------------------------------------------------
(* The interpreter: one action per kind of line.                            *)

Doing(do) == outcome = "running" /\ op.prog # <<>> /\ Head(op.prog).do = do
Line1 == Head(op.prog)

\* The line is done; after the last one the call returns.
Proceed ==
    /\ op' = [op EXCEPT !.prog = Tail(@)]
    /\ outcome' = IF Len(op.prog) = 1 THEN "done" ELSE "running"

\* Mutant: the session is kept for the next operation.
MutantRaise ==
    /\ outcome' = "failed" /\ op' = [op EXCEPT !.prog = <<>>]
    /\ UNCHANGED session

\* The call raises, the script ends and releases its node.
Raise ==
    /\ outcome' = "failed" /\ op' = [op EXCEPT !.prog = <<>>]
    /\ session' = NoSession

\* What happens on an error answer.
OnError == IF Line1.checked THEN Raise /\ UNCHANGED refused
           ELSE Proceed /\ refused' = TRUE /\ UNCHANGED session

\* A script calls the next operation, or another script begins. The report is the
\* one an earlier action left, or that of another client's action under way.
Begin ==
    /\ outcome # "running"
    /\ op' \in Operations
    /\ outcome' = IF op'.prog = <<>> THEN "done" ELSE "running"
    /\ config' = {} /\ polled' = "unbound"
    /\ refused' = FALSE /\ foreign' = FALSE /\ early' = FALSE /\ reloaded' = FALSE
    /\ report' \in IF op'.level = "" THEN {NoReport}
                   ELSE {[state |-> s, own |-> FALSE] : s \in States}
    /\ UNCHANGED <<session, online, reload>>

\* start_CBACliss: a session that answers is used as it is, one that does not is
\* released and made anew.
start_CBACliss ==
    /\ Doing("open")
    /\ \/ /\ online
          /\ session' = IF session.link = "up" THEN session ELSE [NoSession EXCEPT !.link = "up"]
          /\ Proceed
       \/ session.link # "up" /\ Raise
    /\ UNCHANGED <<config, report, online, reload, polled, history>>

close_connection ==
    /\ Doing("close")
    /\ session' = NoSession /\ Proceed
    /\ UNCHANGED <<config, report, online, reload, polled, history>>

\* 'configure': refused inside a transaction.
SendConfigure ==
    /\ Doing("configure") /\ session.link = "up"
    /\ IF session.mode = "exec"
       THEN session' = [session EXCEPT !.mode = "config"] /\ Proceed /\ UNCHANGED refused
       ELSE IF Line1.checked THEN Raise /\ UNCHANGED refused
            ELSE Proceed /\ UNCHANGED <<session, refused>>
    /\ UNCHANGED <<config, report, online, reload, polled, foreign, early, reloaded>>

\* An edit: kept in the transaction, or refused. Outside a transaction it is an
\* error, or only moves the session to an object that exists.
SendEdit ==
    /\ Doing("edit") /\ session.link = "up"
    /\ \/ /\ session.mode = "config"
          /\ session' = [session EXCEPT !.pending =
                             {e \in @ : e[1] # Line1.attr} \cup {<<Line1.attr, Line1.val>>}]
          /\ Proceed /\ UNCHANGED refused
       \/ session.mode = "exec" /\ Proceed /\ UNCHANGED <<session, refused>>
       \/ OnError
    /\ UNCHANGED <<config, report, online, reload, polled, foreign, early, reloaded>>

\* The configuration and the reports after the pending edits are applied: a
\* health check job that is removed takes its report with it.
Committed ==
    /\ config' = {e \in config : \A p \in session.pending : p[1] # e[1]} \cup session.pending
    /\ report' = IF <<"HcJob", "none">> \in session.pending
                 THEN NoReport ELSE report

\* 'commit': it ends the transaction, or the node's validation refuses it and the
\* edits stay. Outside a transaction it is an error.
SendCommit ==
    /\ Doing("commit") /\ session.link = "up"
    /\ \/ /\ session.mode = "config" /\ Committed
          /\ session' = [session EXCEPT !.mode = "exec", !.pending = {}]
          /\ Proceed /\ UNCHANGED refused
       \/ OnError /\ UNCHANGED <<config, report>>
    /\ UNCHANGED <<online, reload, polled, foreign, early, reloaded>>

Reading ==
    /\ (Doing("look") \/ Doing("call")) /\ session.link = "up"
    /\ \/ Proceed /\ UNCHANGED <<session, refused>>
       \/ OnError
    /\ UNCHANGED <<config, report, online, reload, polled, foreign, early, reloaded>>

\* An exception of the code's own: a parameter that is not valid, a name that is
\* not bound.
CodeRaises ==
    /\ Doing("raise") /\ Raise
    /\ UNCHANGED <<config, report, online, reload, polled, history>>

\* A command outside the session: it may raise, unless that is swallowed.
RunCommand ==
    /\ Doing("run")
    /\ \/ Proceed /\ UNCHANGED session
       \/ Line1.checked /\ Raise
    /\ UNCHANGED <<config, report, online, reload, polled, history>>

\* Config after the attribute of the line got its value.
SetTo(line) == {e \in config : e[1] # line.attr} \cup {<<line.attr, line.val>>}

\* A command that changes something: done, refused, or its answer is lost.
PutCommand ==
    /\ Doing("put")
    /\ \/ config' = SetTo(Line1) /\ Proceed /\ UNCHANGED <<session, refused>>
       \/ OnError /\ UNCHANGED config
       \/ config' \in {config, SetTo(Line1)} /\ Raise /\ UNCHANGED refused
    /\ UNCHANGED <<report, online, reload, polled, foreign, early, reloaded>>

\* reload_node, reboot_node: the command, and the main connection is closed.
SendReboot ==
    /\ Doing("reboot")
    /\ \/ reload' = TRUE /\ Proceed /\ UNCHANGED session
       \/ Raise /\ UNCHANGED reload
    /\ UNCHANGED <<config, report, online, polled, history>>

\* reconnect: until the node is reached and its status is OK, or the time is up.
Reconnect ==
    /\ Doing("reconnect")
    /\ \/ online /\ Proceed /\ UNCHANGED session
       \/ Raise
    /\ UNCHANGED <<config, report, online, reload, polled, history>>

-----------------------------------------------------------------------------
(* Actions of the node and their reports.                                   *)

\* One action at a time. A refusal that is looked for raises.
SendRequest ==
    /\ Doing("request") /\ session.link = "up"
    /\ \/ /\ report.state # "RUNNING"
          /\ report' = [state |-> "RUNNING", own |-> TRUE]
          /\ Proceed /\ UNCHANGED <<session, refused>>
       \/ OnError /\ UNCHANGED report
       \/ Line1.val = "failed" /\ Raise /\ UNCHANGED <<report, refused>>
    /\ UNCHANGED <<config, online, reload, polled, foreign, early, reloaded>>

\* The states that end a wait, the result being looked at afterwards.
Ended(line) ==
    report.state \in
        {"SUCCESS", "FAILURE"} \cup (IF line.val = "any" THEN {"CANCELLED"} ELSE {})

\* backup_info and its likes open the session first; the poll of installKeyFile
\* goes on with the one it has.
Reaches(line) == online /\ (line.attr = "keyfile" => session.link = "up")

PollEnds ==
    /\ Doing("poll") /\ Reaches(Line1) /\ Ended(Line1)
    /\ \/ /\ report.state = "SUCCESS"
          /\ session' = IF session.link = "up" THEN session ELSE [NoSession EXCEPT !.link = "up"]
          /\ Proceed
       \/ report.state # "SUCCESS" /\ Raise
    /\ UNCHANGED <<config, report, online, reload, polled, history>>

\* The time is up, the session cannot be made, or there is no report to parse.
PollRaises ==
    /\ Doing("poll") /\ ~(Reaches(Line1) /\ Ended(Line1))
    /\ Raise
    /\ UNCHANGED <<config, report, online, reload, polled, history>>

\* run_CBA_restore_backup, the loop while ssh_server_available: a poll that reads
\* a running action closes the session, any other end of the loop releases it.
PollRestore ==
    /\ Doing("poll_restore") /\ online
    /\ \/ /\ report.state \in {"RUNNING", "none"}
          /\ polled' = report.state
          /\ session' = NoSession /\ UNCHANGED <<op, outcome>>
       \/ /\ report.state = "SUCCESS"
          /\ polled' = "SUCCESS" /\ session' = NoSession /\ Proceed
       \/ report.state \in {"FAILURE", "CANCELLED"} /\ Raise /\ UNCHANGED polled
    /\ UNCHANGED <<config, report, online, reload, history>>

\* An exception of the poll is taken for the reload. What the last poll read is
\* used then: without one the code raises, and so it may when the report had no
\* timeActionCompleted yet.
RestoreException ==
    \/ polled = "RUNNING" /\ session' = NoSession /\ Proceed
    \/ Raise

PollRestoreDown ==
    /\ Doing("poll_restore") /\ ~online /\ RestoreException
    /\ UNCHANGED <<config, report, online, reload, polled, history>>

PollRestoreTimeout ==
    /\ Doing("poll_restore") /\ online /\ Raise
    /\ UNCHANGED <<config, report, online, reload, polled, history>>

\* "Wait for connection broken": no limit of time. A status that is not OK, or
\* cannot be read, ends the wait, also that of a node still up.
WaitBroken ==
    /\ Doing("wait_broken")
    /\ Proceed /\ early' = online
    /\ UNCHANGED <<session, config, report, online, reload, polled, refused, foreign, reloaded>>

\* "Wait for cabinet reload": until the status is OK or the time is up.
WaitReload ==
    /\ Doing("wait_reload")
    /\ \/ online /\ Proceed /\ UNCHANGED session
       \/ Raise
    /\ UNCHANGED <<config, report, online, reload, polled, history>>

\* A line sent on a session that is gone raises.
SendOnBroken ==
    /\ \E do \in {"configure", "edit", "commit", "look", "call", "request"} : Doing(do)
    /\ session.link # "up"
    /\ Raise
    /\ UNCHANGED <<config, report, online, reload, polled, history>>

Step ==
    \/ start_CBACliss \/ close_connection \/ SendConfigure \/ SendEdit \/ SendCommit
    \/ Reading \/ CodeRaises \/ RunCommand \/ PutCommand \/ SendReboot \/ Reconnect \/ SendRequest \/ PollEnds \/ PollRaises
    \/ PollRestore \/ PollRestoreDown \/ PollRestoreTimeout \/ WaitBroken \/ WaitReload
    \/ SendOnBroken

-----------------------------------------------------------------------------
(* The node, and what goes wrong between it and the script.                 *)

\* The restore of this operation is going on.
Restoring ==
    report.own /\ report.state = "RUNNING" /\ op.name \in {"restore_backup", "restore_backup -s"}

ActionEnds ==
    /\ online /\ report.state = "RUNNING"
    /\ \E state \in {"SUCCESS", "FAILURE", "CANCELLED"} :
          /\ report' = [report EXCEPT !.state = state]
          /\ reload' = (reload \/ (Restoring /\ state = "SUCCESS"))
    /\ UNCHANGED <<session, op, outcome, config, online, polled, history>>

\* The scheduler of the node, or another operator.
OtherClient ==
    /\ online /\ op.level \in {"manager", "backup"} /\ report.state # "RUNNING"
    /\ outcome = "running"
    /\ report' = [state |-> "RUNNING", own |-> FALSE]
    /\ foreign' = TRUE
    /\ UNCHANGED <<session, op, outcome, config, online, reload, polled, refused, early, reloaded>>

\* A restored node reloads, sometimes before its report says that it is done.
NodeDown ==
    /\ online /\ (reload \/ Restoring)
    /\ online' = FALSE /\ reload' = TRUE /\ reloaded' = TRUE
    /\ report' = NoReport
    /\ session' = IF session.link = "up" THEN [session EXCEPT !.link = "broken"] ELSE session
    /\ UNCHANGED <<op, outcome, config, polled, refused, foreign, early>>

\* The reload takes minutes, the script looks every 30 s at most.
NodeUp ==
    /\ ~online /\ ~Doing("poll_restore") /\ ~Doing("wait_broken")
    /\ online' = TRUE /\ reload' = FALSE
    /\ UNCHANGED <<session, op, outcome, config, report, polled, history>>

\* The connection is lost, the node being up.
LoseSession ==
    /\ online /\ session.link = "up"
    /\ session' = [session EXCEPT !.link = "broken"]
    /\ UNCHANGED <<op, outcome, config, report, online, reload, polled, history>>

\* The answer to a commit is lost: the call raises, the edits are in.
LoseCommit ==
    /\ Doing("commit") /\ session.link = "up" /\ session.mode = "config"
    /\ Committed /\ Raise
    /\ UNCHANGED <<online, reload, polled, history>>

\* A poll of the restore fails with the node up.
LosePoll ==
    /\ Doing("poll_restore") /\ online /\ RestoreException
    /\ UNCHANGED <<config, report, online, reload, polled, history>>

CbaNext ==
    \/ Begin \/ Step
    \/ ActionEnds \/ OtherClient \/ NodeDown \/ NodeUp \/ LoseSession \/ LoseCommit \/ LosePoll

CbaSpec == CbaInit /\ [][CbaNext]_cbaVars

-----------------------------------------------------------------------------
\* Operations that look at every answer.
Strict == {"schedule_backup", "remove_schedule_backup", "schedule_health_check",
           "remove_schedule_health_check"}

\* An operation that returns has put in place all it was called for, even when
\* the session was lost and made anew between two of its lines, which throws the
\* edits away silently (start_CBACliss); for the operations that look only at the
\* answer to the commit, as long as the node refused none of their edits.
DoneIsWhole ==
    outcome = "done" /\ (op.name \in Strict \/ ~refused) => op.goal \subseteq config

\* A commit puts in the configuration only what its own operation has sent: the
\* edits an operation leaves behind in the shared session when its commit is
\* refused are never committed by the next one.
CommitIsOwn ==
    [][Doing("commit") /\ config' # config => session.pending \subseteq op.edits]_cbaVars

\* Operations that do not look at every refusal of their request.
Unlooked == {"create_backup", "delete_backup", "export_backup", "restore_backup",
             "restore_backup -s", "health_check", "update_licenses"}

\* A wait for an action ends well only on the report of the action the operation
\* itself started, never on the one a previous execution left, unless another
\* client's action replaced the report. All but the import of a backup and the
\* installation of certificates may overlook that the node refused the request,
\* and read an earlier success as theirs: for them as long as it was accepted.
OwnReport ==
    [][(Doing("poll") /\ outcome' # "failed" /\ op'.prog # op.prog /\ ~foreign
            /\ (op.name \in Unlooked => ~refused))
        => report.own /\ report.state = "SUCCESS"]_cbaVars

\* run_CBA_restore_backup that waits for the reload returns only after the node
\* has gone down, and is up again, whoever else works on the backup, and also when
\* a poll that failed was taken for the reload; unless the wait for the reload to
\* begin met a node that was up and not well.
RestoredIsReloaded ==
    outcome = "done" /\ op.name = "restore_backup" /\ ~early => reloaded /\ online
=============================================================================
