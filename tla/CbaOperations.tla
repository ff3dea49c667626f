---------------------------- MODULE CbaOperations ----------------------------
(***************************************************************************)
(* The operations hss_utils.node.cba and hss_utils.st_command.cba carry out *)
(* over the CLISS session of a CBA node: what each sends, and which answers *)
(* it looks at. An operation is the list of lines it sends on the one       *)
(* session 'cliss_hssadministrator': a transaction (configure, edits,       *)
(* commit), an asynchronous action of the node followed by polls of its     *)
(* progress report, or both. Listings, collections of files and commands of *)
(* the shell are in CbaQueries; CbaNode carries the lines out.              *)
(***************************************************************************)
EXTENDS Integers, Sequences, FiniteSets, SequencesExt

CONSTANT Ip   \* addresses of NTP servers

ASSUME IpAssumption == {"set", "none"} \cap Ip = {}

-----------------------------------------------------------------------------
(* The lines of an operation. checked: the code raises when the answer      *)
(* carries an error.                                                        *)

Line(do, attr, val, checked) == [do |-> do, attr |-> attr, val |-> val, checked |-> checked]

Edit(attr, val)   == Line("edit", attr, val, FALSE)
Edit1(attr)       == Edit(attr, "set")
No(attr)          == Edit(attr, "none")
Open              == <<Line("open", "", "", TRUE)>>
Disconnect        == <<Line("close", "", "", TRUE)>>
Configure         == Line("configure", "", "", FALSE)
Commit            == Line("commit", "", "", TRUE)
\* A listing the code reads something from: it raises when that is not there.
Look              == <<Line("look", "", "", TRUE)>>
\* A command without a report.
Call(checked)     == <<Line("call", "", "", checked)>>
\* The code itself raises here.
Raises            == <<Line("raise", "", "", TRUE)>>
Request(level, checked) == Line("request", level, "", checked)
\* Of the answer only 'command failed' is looked for: an ERROR, that of a refused
\* navigation included, goes unnoticed.
RequestTried(level) == Line("request", level, "failed", FALSE)
\* ends: "any" where FINISHED and CANCELLED end the wait, "finished" where only
\* FINISHED does.
Poll(level, ends) == Line("poll", level, ends, TRUE)

Transaction(edits) == <<Configure>> \o edits \o <<Commit>>

\* Mutant: only the answer to the commit is looked at.
MutantRunCmd(lines) ==
    [i \in 1 .. 2 * Len(lines) |->
        IF i % 2 = 1 THEN Line("open", "", "", TRUE) ELSE lines[i \div 2]]

\* run_backup_cmd, run_health_check_cmd: the session is opened, or tried and
\* made again, before every line, and every answer is looked at.
RunCmd(lines) ==
    [i \in 1 .. 2 * Len(lines) |->
        IF i % 2 = 1 THEN Line("open", "", "", TRUE)
                     ELSE [lines[i \div 2] EXCEPT !.checked = TRUE]]

When(cond, prog) == IF cond THEN prog ELSE <<>>

\* The parts of a program one after the other.
Series(n, part) ==
    LET upto[i \in 0 .. n] == IF i = 0 THEN <<>> ELSE upto[i - 1] \o part[i]
    IN  upto[n]

\* The lines of prog, n times.
Repeat(n, prog) == Series(n, [i \in 1 .. n |-> prog])

\* The places of the lines that set an attribute, and what they set; what they
\* leave: the last value of each attribute.
Sets(prog) == {i \in 1 .. Len(prog) : prog[i].do \in {"edit", "put"}}
AllEdits(prog) == {<<prog[i].attr, prog[i].val>> : i \in Sets(prog)}
LastEdits(prog) ==
    {<<prog[i].attr, prog[i].val>> : i \in
        {j \in Sets(prog) : \A k \in Sets(prog) : k > j => prog[k].attr # prog[j].attr}}

\* The report an operation waits for: that of its first request.
LevelOf(prog) ==
    LET rs == {i \in 1 .. Len(prog) : prog[i].do = "request"}
    IN  IF rs = {} THEN "" ELSE prog[Min(rs)].attr

\* goal: the values an operation is called to set; edits: all it sends.
Operation(name, prog) ==
    [name |-> name, prog |-> prog, goal |-> LastEdits(prog), edits |-> AllEdits(prog),
     level |-> LevelOf(prog)]

-----------------------------------------------------------------------------
(* Configuration operations.                                                *)

change_OwnGTAddress ==
    Operation("change_OwnGTAddress", Open \o Transaction(<<Edit1("OwnGTAddress")>>) \o Disconnect)

remove_dia_peer_node(disconnect) ==
    Operation("remove_dia_peer_node",
        Open \o Transaction(<<Edit("enabled", "false")>>)
             \o Transaction(<<No("NeighbourNode")>>)
             \o When(disconnect, Disconnect))

unlock_traffic_modules(locked) ==
    Operation("unlock_traffic_modules",
        Open \o When("IMS" \in locked, Transaction(<<Edit1("AdministrativeState")>>))
             \o Open
             \o When("ESM" \in locked, Transaction(<<Edit1("EsmAdministrativeState")>>)))

\* Nothing is done when the node has the credential already. A refused enrollment
\* raises only when the report says that the file exists (the test is the wrong
\* way round): any other refusal goes unnoticed.
add_csr_cert_cliss(exists) ==
    Operation("add_csr_cert",
        Open \o When(~exists,
            Transaction(<<Edit1("NodeCredential"), Edit1("subjectName"), Edit1("keyInfo")>>)
            \o Call(FALSE) \o Look))

delete_csr_cert_cliss == Operation("delete_csr_cert", Open \o Transaction(<<No("NodeCredential")>>))

\* The second edit is looked at, the first is not.
create_trusted_category_cliss ==
    Operation("create_trusted_category",
        Open \o Transaction(<<Edit1("TrustCategory"),
                              Line("edit", "trustedCertificates", "set", TRUE)>>))

delete_trusted_category_cliss ==
    Operation("delete_trusted_category", Open \o Transaction(<<No("TrustCategory")>>))

enable_trusted_cert_cliss ==
    Operation("enable_trusted_cert",
        Open \o Transaction(<<Edit1("TrustedCertificate"), Edit("managedState", "ENABLED")>>))

disable_trusted_cert_cliss ==
    Operation("disable_trusted_cert", Open \o Transaction(<<Edit("managedState", "DISABLED")>>))

config_cli_tls_cliss ==
    Operation("config_cli_tls",
        Open \o Transaction(<<Edit1("nodeCredential"), Edit1("trustCategory")>>)
             \o Transaction(<<Edit("administrativeState", "UNLOCKED")>>))

delete_config_cli_tls_cliss ==
    Operation("delete_config_cli_tls",
        Open \o Transaction(<<Edit("administrativeState", "LOCKED"), No("nodeCredential"),
                              No("trustCategory")>>))

config_netconf_tls_cliss ==
    Operation("config_netconf_tls", config_cli_tls_cliss.prog)

delete_config_netconf_tls_cliss ==
    Operation("delete_config_netconf_tls", delete_config_cli_tls_cliss.prog)

config_flow_policy_cliss ==
    Operation("config_flow_policy",
        Open \o Transaction(<<Edit1("EvipFlowPolicy"), Edit1("addressFamily"), Edit1("dest"),
                              Edit1("destPort"), Edit1("protocol"), Edit1("targetPool")>>))

delete_flow_policy_cliss ==
    Operation("delete_flow_policy", Open \o Transaction(<<No("EvipFlowPolicy")>>))

\* One 'configure' for every payload, one commit: inside a transaction the
\* second 'configure' is refused, which nobody looks at.
scale_in_payloads_cliss ==
    Operation("scale_in_payloads",
        Open \o <<Configure, No("provides1"), Configure, No("provides2"), Commit>>)

\* get_nbi_tenant, get_nbi_proc_cliss_dn: the processor is looked up by tenant,
\* shelf and slot.
get_nbi_tenant == Look \o Look
get_nbi_proc_cliss_dn == get_nbi_tenant \o Look \o Look \o Look

\* A transaction on a session of its own ('nbi_cliss'); then the state of the
\* processor is polled until it is the expected one or the time is up.
nbi_lock_processor ==
    Operation("nbi_lock_processor",
        Disconnect \o Open \o get_nbi_proc_cliss_dn
            \o Transaction(<<Edit("administrativeState", "LOCKED")>>) \o Look)

nbi_unlock_processor ==
    Operation("nbi_unlock_processor",
        Disconnect \o Open \o get_nbi_proc_cliss_dn
            \o Transaction(<<Edit("administrativeState", "UNLOCKED")>>) \o Look)

delete_trusted_cert_cliss == Operation("delete_trusted_cert", Open \o Call(FALSE))

check_scaling_cliss == Operation("check_scaling", Open \o Look)

scalable_payloads_cliss == Operation("scalable_payloads", Open \o Look)

\* With configure the string formatting of the first line raises.
run_cliss_command(configure) ==
    Operation("run_cliss_command",
        Open \o IF configure THEN Raises ELSE Call(FALSE) \o Disconnect)

\* The lines of an NTP operation are kept with its server: one attribute per id.
NtpServer(id) == <<"ntp0", "ntp1", "ntp2">>[id + 1]

get_ntp_servers_info_cliss == Open \o Look

update_ntp_server_cliss(ip, id) == Open \o Transaction(<<Edit(NtpServer(id), ip)>>)

add_ntp_server_cliss(ip, id) ==
    Open \o Transaction(<<Edit1(NtpServer(id)), Edit(NtpServer(id), ip),
                          Edit("administrativeState", "UNLOCKED")>>)

remove_ntp_server_cliss(id) ==
    Open \o Transaction(<<No(NtpServer(id))>>)

\* The ids the node has are 1 .. ids, at most two are read.
update_ntp_servers_cliss(ids, list) ==
    LET n == Len(list) IN
    IF n >= ids
    THEN When(ids >= 1, update_ntp_server_cliss(list[1], 1))
         \o When(ids >= 2, update_ntp_server_cliss(list[2], 2))
         \o When(ids = 1 /\ n > 1, add_ntp_server_cliss(list[2], 2))
    ELSE When(n >= 1, update_ntp_server_cliss(list[1], 1))
         \o When(n = 1 /\ ids > 1, remove_ntp_server_cliss(2))

\* What the caller asked for: the servers of the node are those of the list.
\* Left open where the code itself leaves servers out: no server configured yet,
\* or more than two in the list.
NtpGoal(ids, list) ==
    IF ids = 0 \/ Len(list) \notin 1 .. 2 THEN {}
    ELSE {<<NtpServer(i), list[i]>> : i \in 1 .. Len(list)}
         \cup {<<NtpServer(i), "none">> : i \in (Len(list) + 1) .. ids}

update_ntp_servers(ids, list) ==
    [Operation("update_ntp_servers", get_ntp_servers_info_cliss \o update_ntp_servers_cliss(ids, list))
        EXCEPT !.goal = NtpGoal(ids, list)]

run_CBA_schedule_backup ==
    Operation("schedule_backup",
        RunCmd(Transaction(<<Edit1("BrmPeriodicEvent"), Edit1("hours"), Edit1("stopTime")>>)))

run_CBA_remove_schedule_backup ==
    Operation("remove_schedule_backup", RunCmd(Transaction(<<No("BrmPeriodicEvent")>>)))

run_CBA_schedule_health_check ==
    Operation("schedule_health_check",
        RunCmd(Transaction(<<Edit("hcState", "UNLOCKED"), Edit1("HcPeriodicEvent"), Edit1("hours"),
                             Edit1("startTime"), Edit1("stopTime")>>)))

run_CBA_remove_schedule_health_check ==
    Operation("remove_schedule_health_check",
        RunCmd(Transaction(<<Edit("hcState", "LOCKED"), No("HcPeriodicEvent")>>)))

-----------------------------------------------------------------------------
(* Operations that start an action of the node and wait for its report. The *)
(* backup manager keeps one report for create, delete and import, and one   *)
(* on every backup for export and restore.                                  *)

run_CBA_create_backup ==
    Operation("create_backup", Open \o <<RequestTried("manager"), Poll("manager", "any")>>)

run_CBA_delete_backup ==
    Operation("delete_backup", Open \o <<RequestTried("manager"), Poll("manager", "any")>>)

\* Mutant: importBackup looks for 'command failed' only, as createBackup does.
Mutant_import_backup ==
    Operation("import_backup", Open \o <<RequestTried("manager"), Poll("manager", "any")>>)

run_CBA_import_backup ==
    Operation("import_backup", Open \o <<Request("manager", TRUE), Poll("manager", "any")>>)

run_CBA_export_backup ==
    Operation("export_backup",
        Open \o Look \o <<RequestTried("backup"), Poll("backup", "any")>>)

\* Mutant: the node's status is looked at without waiting for the reload to begin.
Mutant_restore_backup(named, skip_reload) ==
    Operation(IF skip_reload THEN "restore_backup -s" ELSE "restore_backup",
        Open \o <<RequestTried("backup"), Line("poll_restore", "backup", "", TRUE)>>
             \o When(~skip_reload, <<Line("wait_reload", "", "", TRUE)>>))

run_CBA_restore_backup(named, skip_reload) ==
    Operation(IF skip_reload THEN "restore_backup -s" ELSE "restore_backup",
        Open \o When(named, Look)
             \o <<RequestTried("backup"), Line("poll_restore", "backup", "", TRUE)>>
             \o When(~skip_reload,
                    <<Line("wait_broken", "", "", TRUE), Line("wait_reload", "", "", TRUE)>>))

\* start_healthcheck makes the job Full anew before it is executed, so that the
\* report read later is not the one of an earlier execution.
start_healthcheck(is_virtual) ==
    Open \o Transaction(<<No("HcJob")>>)
         \o When(is_virtual, Transaction(<<Edit1("HSS_201"), Edit1("HSS_107")>>))
         \o Transaction(<<Edit1("HcJob"), Edit1("rulesCategories")>>)
         \o <<Request("job", FALSE)>>

run_CBA_health_check(is_virtual) ==
    Operation("health_check", start_healthcheck(is_virtual) \o <<Poll("job", "finished")>>)

grant_licenses == Open \o Call(FALSE) \o Look

\* The answer to installKeyFile is not looked at.
update_licenses(updateable) ==
    Operation("update_licenses",
        Open \o Look \o When(updateable, Transaction(<<Edit1("fingerprint")>>) \o Look)
             \o <<Request("keyfile", FALSE), Poll("keyfile", "finished")>> \o grant_licenses)

inst_csr_cert_cliss ==
    Operation("inst_csr_cert", Open \o <<Request("enrollment", TRUE), Poll("enrollment", "finished")>>)

inst_trusted_cert_cliss ==
    Operation("inst_trusted_cert", Open \o <<Request("trusted", TRUE), Poll("trusted", "finished")>>)
=============================================================================
