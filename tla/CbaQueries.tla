------------------------------ MODULE CbaQueries ------------------------------
(***************************************************************************)
(* The other operations of hss_utils.node.cba, hss_utils.st_command.cba and *)
(* the test cases: listings read over the shared CLISS session or over      *)
(* sessions of other users, commands of the shell of the node and of its    *)
(* processors, files collected and taken away again, reloads of the node.   *)
(* They run between the transactions of CbaOperations, open, use and close  *)
(* the session those share, and leave files behind when they raise.         *)
(***************************************************************************)
EXTENDS CbaOperations

\* A command on the main connection, on one to a processor or on a session of
\* another user: it proceeds or raises. Caught: its exceptions are swallowed.
Run    == <<Line("run", "", "", TRUE)>>
Caught == <<Line("run", "", "", FALSE)>>
\* A command that changes the node, or the disk of the caller, at once.
Put(attr, val, checked) == <<Line("put", attr, val, checked)>>
\* The session, and a listing.
Show   == Open \o Look

-----------------------------------------------------------------------------
(* Listings.                                                                *)

\* get_traffic_info: the items asked for, each from the session of its user.
TrafficItems == {"hss_version", "dia", "radius", "radiusClient", "ownGTAddress", "extdb",
                 "vector_supplier", "HSS-MapSriForLcs", "HSS-CommonAuthenticationVectorSupplier",
                 "HSS-EsmIsActive", "udm", "soap", "soap_ldap", "udmClient", "udmHttp2Client"}

hss_items(ims, info) ==
    When("hss_version" \in info, Run) \o When("dia" \in info, Show)
    \o When(ims /\ "radius" \in info, Show) \o When(ims /\ "radiusClient" \in info, Show)
    \o When("ownGTAddress" \in info, Show) \o When("extdb" \in info, Show)

support_items(info) ==
    When("vector_supplier" \in info, Run) \o When("HSS-MapSriForLcs" \in info, Run)
    \o When("HSS-CommonAuthenticationVectorSupplier" \in info, Run)
    \o When("HSS-EsmIsActive" \in info, Show)

\* Whatever goes wrong with the UDM is swallowed.
server_items(info) ==
    When("udm" \in info, Caught) \o When("soap" \in info, Run) \o When("soap_ldap" \in info, Run)
    \o When("udmClient" \in info, Caught) \o When("udmHttp2Client" \in info, Caught)

get_traffic_info(ims, asked) ==
    LET info == IF asked = {} THEN TrafficItems ELSE asked IN
    Operation("get_traffic_info",
        hss_items(ims, info) \o support_items(info) \o server_items(info))

configured_ExtDb_connections == Run
configured_ExtDb_urls        == Show \o Disconnect
configured_Http_connections  == Run
configured_Http_uris         == Run
configured_Http2_connections == Run
configured_Http2_uris        == Run

\* One listing for every key.
find_licenses(keys) == Show \o Repeat(keys, Look)
find_capacity_licenses(keys) == Show \o Repeat(keys, Look)

run_CBA_get_licenses(keys) ==
    Operation("get_licenses", find_licenses(keys) \o find_capacity_licenses(keys))

\* A key that cannot be listed is tried once more.
check_all_licenses_granted(keys, again) ==
    Operation("check_all_licenses_granted",
        Show \o When(keys = 0, Raises) \o Repeat(keys, When(again, Call(FALSE)) \o Look))

run_CBA_list_backup(backups) ==
    Operation("list_backup", Show \o Repeat(backups, Show) \o Show)

manual_backups(backups) ==
    Operation("manual_backups", Show \o Repeat(backups, Show) \o Run)

run_CBA_check_backup == Operation("check_backup", Show)

alarm_info == Open \o Call(FALSE) \o Look
get_alarm_info == alarm_info

run_CBA_check_alarms(summary, list, alarms) ==
    Operation("check_alarms",
        When(summary, alarm_info) \o alarm_info \o When(~list, Repeat(alarms, get_alarm_info)))

\* The list of alarms is asked for a second time, after 10 s.
nbi_alarm_info(again) == Run \o When(again, Run)

run_CBA_NBI_check_alarms(filter, again, alarms) ==
    Operation("NBI_check_alarms",
        When(~filter, nbi_alarm_info(again)) \o nbi_alarm_info(again)
        \o Repeat(alarms, nbi_alarm_info(FALSE)))

healthcheck_list_hcjobs == Operation("list_hcjobs", Open \o Call(FALSE) \o Look)

get_dia_container_peer_nodes(disconnect) == Show \o When(disconnect, Disconnect)

get_dia_container_peer_node_info(disconnect) == Show \o When(disconnect, Disconnect)

get_dia_container_peer_node_conns(disconnect) == Show \o When(disconnect, Disconnect)

\* With the addresses among the items, as by default, a name that is not bound.
get_dia_container_peer_node_conn_info(addresses, disconnect) ==
    Show \o When(addresses, Raises) \o When(disconnect, Disconnect)

\* The peers of a stack, their connections and the state of each.
find_diameter_connection_up(nodes) ==
    Operation("find_diameter_connection_up",
        get_dia_container_peer_nodes(FALSE)
        \o Repeat(nodes, get_dia_container_peer_node_conns(FALSE)
                         \o get_dia_container_peer_node_conn_info(FALSE, FALSE)))

\* Without an own GT address the session stays open.
get_map_info(found, operations) ==
    Operation("get_map_info", Show \o When(found, Repeat(operations, Look) \o Disconnect))

get_tls_protocol == Operation("get_tls_protocol", Show)

-----------------------------------------------------------------------------
(* Checks on the processors: a connection to each, and a command.           *)

processors == Run
payload    == Run
processor_state == Run
extend_connection == Run

run_CBA_check_ExtDb_connections(pls) ==
    Operation("check_ExtDb_connections",
        configured_ExtDb_connections \o payload \o Repeat(pls, extend_connection \o Run) \o Run)

\* The addresses are asked for only where a server is configured.
run_CBA_check_Http_connections(http, http2, pls) ==
    Operation("check_Http_connections",
        configured_Http_connections \o When(http, configured_Http_uris)
        \o configured_Http2_connections \o When(http2, configured_Http2_uris)
        \o payload
        \o Repeat(pls, extend_connection \o When(http, Run) \o When(http2, Run)) \o Run)

run_CBA_check_time_wait_connections(valid, pls) ==
    Operation("check_time_wait_connections",
        IF valid THEN payload \o Repeat(pls, extend_connection \o Run) \o Run ELSE Raises)

check_Http_connections_up ==
    Operation("check_Http_connections_up",
        extend_connection \o configured_Http_connections \o configured_Http2_connections
        \o configured_Http_uris \o configured_Http2_uris \o Caught \o Run)

run_CBA_check_umask(n) ==
    Operation("check_umask", processors \o Repeat(n, extend_connection \o Run) \o Run)

run_CBA_get_free_memory(cpu_load, n) ==
    Operation("get_free_memory",
        processors \o Run \o Repeat(n, extend_connection \o Run \o When(cpu_load, Run)))

run_CBA_run_PL_command(valid, n, commands) ==
    Operation("run_PL_command",
        processors \o IF valid THEN Repeat(n, extend_connection \o Run \o Repeat(commands, Run))
                      ELSE Raises)

run_CBA_proc_status(valid, n) ==
    Operation("proc_status", processors \o IF valid THEN Repeat(n, processor_state) ELSE Raises)

\* Backups in the log of the active controller, and those deleted.
run_CBA_check_scheduled_backups(valid, deleted) ==
    Operation("check_scheduled_backups",
        IF valid THEN Run \o Run \o When(deleted, Run) \o Run ELSE Raises)

run_CBA_wait_datetime(given, valid) ==
    Operation("wait_datetime", When(given, IF valid THEN Run ELSE Raises) \o Run)

run_CBA_SS7_SCTP_info == Operation("SS7_SCTP_info", extend_connection \o Run)

run_CBA_SS7_stack_processes_state == Operation("SS7_stack_state", extend_connection \o Run)

-----------------------------------------------------------------------------
(* Commands that change the node.                                           *)

Proc(i) == <<"SC-1", "SC-2", "PL-3">>[i]

\* Only the processors in another state get the command; nobody looks at its
\* answer.
run_CBA_lock_proc(n, already) ==
    Operation("lock_proc",
        processors \o Series(n, [i \in 1 .. n |->
            processor_state \o When(i \notin already, Put(Proc(i), "LOCKED", FALSE))]))

run_CBA_unlock_proc(n, already) ==
    Operation("unlock_proc",
        processors \o Series(n, [i \in 1 .. n |->
            processor_state \o When(i \notin already, Put(Proc(i), "UNLOCKED", FALSE))]))

\* A variable that is not in the list read first is created.
set_envdata(known) ==
    Operation("envdata_set",
        Run \o When(~known, Put("variable", "created", FALSE)) \o Put("value", "set", FALSE))

run_CBA_envdata_unset(known) ==
    Operation("envdata_unset", Run \o IF known THEN Put("value", "none", FALSE) ELSE Raises)

\* The wait for the processes returns, with a message, when its time is up.
run_CBA_SS7_stack_reset == Operation("SS7_stack_reset",
    extend_connection \o Put("stack", "reset", TRUE) \o Run)

run_CBA_SS7_SCTP_release_association == Operation("SS7_SCTP_release_association",
    extend_connection \o Put("association", "released", TRUE))

\* ntpdate is repeated until it says that the time was set.
sync_processor_ntp_server(sc) == extend_connection \o Put(sc, "set", TRUE) \o Run
sync_processor_ntp_restart(pl) == extend_connection \o Put(pl, "set", FALSE) \o Run

run_CBA_sync_ntp_server(valid) ==
    Operation("sync_ntp_server",
        IF valid THEN processors \o sync_processor_ntp_server("SC-1")
                      \o sync_processor_ntp_server("SC-2") \o sync_processor_ntp_restart("PL-3")
        ELSE Raises)

\* The commands go to the main connection, not to the processor connected to.
disable_itco_watchdog == extend_connection \o Put("watchdog", "stopped", FALSE) \o Run
status_itco_watchdog_disabled == extend_connection \o Run

run_CBA_disable_iTCO_watchdog(valid, is_virtual, needed, rounds) ==
    Operation("disable_iTCO_watchdog",
        IF ~valid THEN Raises
        ELSE Run \o When(~is_virtual, Run \o When(needed,
                Repeat(rounds, Repeat(2, disable_itco_watchdog)
                               \o Repeat(2, status_itco_watchdog_disabled)))))

\* The emergency session; enabled already, or disabled, nothing is done.
check_user_locked == Run \o Run \o Run
start_CBAClissEmergency == Run \o check_user_locked \o Disconnect \o Open
is_AandA_enabled == start_CBAClissEmergency \o Look \o Look \o Disconnect

AandA(state) ==
    Transaction(<<Edit("LdapAuthenticationMethod", state), Edit("LocalAuthorizationMethod", state)>>)

enable_AandA(enabled) ==
    Operation("enable_AandA",
        is_AandA_enabled \o When(~enabled, start_CBAClissEmergency \o AandA("UNLOCKED")))

disable_AandA(enabled) ==
    Operation("disable_AandA",
        is_AandA_enabled \o When(enabled, start_CBAClissEmergency \o AandA("LOCKED")))

run_CBA_clean_app_logs(logs) ==
    Operation("clean_app_logs", Run \o When(logs, Run \o Put("logs", "none", FALSE)))

clean_logs(logs) ==
    Operation("clean_logs", Run \o Run \o When(logs, Run \o Run \o Put("logs", "none", FALSE)))

-----------------------------------------------------------------------------
(* Files collected on the node, downloaded and taken away again. A copy for *)
(* a user that is not root stays behind.                                    *)

download(root) == When(~root, Put("temporary_path", "copy", FALSE)) \o Run

upload(root) ==
    Operation("upload",
        IF root THEN Run
        ELSE Run \o Put("temporary_path", "copy", FALSE) \o Run \o Put("temporary_path", "none", FALSE))

Collect(file, root) == Put(file, "made", FALSE) \o download(root) \o Put(file, "none", FALSE)

force_primary_controller == Run \o Run \o Run

run_CBA_collect_logs(console, types, root) ==
    Operation("collect_logs",
        force_primary_controller
        \o When(console, Put("logdump", "made", FALSE) \o Run \o download(root)
                         \o Put("logdump", "none", FALSE))
        \o When("applogs" \in types, Run \o Collect("applog", root))
        \o When(types \cap {"alarms", "alerts"} # {}, Run)
        \o When("alarms" \in types, Run \o Collect("FmAlarmLog", root))
        \o When("alerts" \in types, Run \o Collect("FmAlertLog", root)))

\* An answer without the name of the archive raises.
run_CBA_diacc_collect_info(root) ==
    Operation("diacc_collect_info",
        payload \o extend_connection \o Run \o Put("archive", "made", TRUE) \o download(root)
        \o Put("archive", "none", FALSE))

run_CBA_cmw_collect_info(root) ==
    Operation("cmw_collect_info",
        Run \o Put("archive", "made", TRUE) \o download(root) \o Put("archive", "none", FALSE))

run_CBA_get_diacc_dump_json(root) ==
    Operation("get_diacc_dump_json",
        payload \o extend_connection \o Collect("json", root))

\* Files one by one, or packed.
run_CBA_find_and_download(valid, files, pack, root) ==
    Operation("find_and_download",
        IF ~valid THEN Raises
        ELSE Run \o IF pack THEN Collect("pack", root) ELSE Repeat(files, download(root)))

\* The working directory is removed when the counters are summed up; files of a
\* given directory are packed again.
run_CBA_pmf_counter_sum(own) ==
    Operation("pmf_counter_sum",
        IF own THEN Put("directory", "made", TRUE) \o Run \o Run \o Run \o Put("directory", "none", TRUE)
        ELSE Put("files", "unpacked", TRUE) \o Run \o Put("files", "packed", TRUE))

run_CBA_check_pmf_counter_update ==
    Operation("check_pmf_counter_update",
        Put("directory", "made", TRUE) \o Run \o Run \o Run \o Put("directory", "none", TRUE) \o Run)

-----------------------------------------------------------------------------
(* Reloads ordered by a test case, and the wait for the node.               *)

Reboot == <<Line("reboot", "", "", TRUE)>>

reload_node == Reboot
reboot_node == Reboot
cmw_reboot_sc == Reboot

\* reconnect looks for the first time after 60 s.
reconnect_node == <<Line("reconnect", "", "", TRUE)>>

\* Exceptions of a look at the connections are swallowed.
wait_for_all_ExtDb_connections_up == extend_connection \o Caught \o Run

wait_for_node_reload(order) ==
    Operation("node_reload",
        order \o reconnect_node \o processors \o wait_for_all_ExtDb_connections_up)

reboot_processor == Operation("reboot_processor", extend_connection \o Caught \o Caught)

-----------------------------------------------------------------------------
\* Bounds: at most two keys, backups, alarms, processors or rounds.
Few == 0 .. 2

TrafficListings ==
    {get_traffic_info(i, {}) : i \in BOOLEAN} \cup {get_traffic_info(TRUE, {i}) : i \in TrafficItems}

Listings ==
    {Operation("listing", prog) : prog \in
        {configured_ExtDb_urls} \cup {get_dia_container_peer_node_info(d) : d \in BOOLEAN}
        \cup {get_dia_container_peer_node_conn_info(a, d) : a, d \in BOOLEAN}}

Queries ==
    {run_CBA_check_backup, healthcheck_list_hcjobs, get_tls_protocol, check_Http_connections_up,
     run_CBA_SS7_SCTP_info, run_CBA_SS7_stack_processes_state, run_CBA_SS7_stack_reset,
     run_CBA_SS7_SCTP_release_association, run_CBA_check_pmf_counter_update, reboot_processor}
    \cup TrafficListings \cup Listings
    \cup (UNION {{run_CBA_get_licenses(n), run_CBA_list_backup(n), manual_backups(n),
                  find_diameter_connection_up(n), run_CBA_check_ExtDb_connections(n),
                  run_CBA_check_umask(n)} : n \in Few})
    \cup (UNION {{check_all_licenses_granted(n, b), get_map_info(b, n), run_CBA_get_free_memory(b, n),
                  run_CBA_proc_status(b, n), run_CBA_run_PL_command(b, n, 2),
                  run_CBA_check_time_wait_connections(b, n)} : n \in Few, b \in BOOLEAN})
    \cup (UNION {{run_CBA_check_alarms(a, b, n), run_CBA_NBI_check_alarms(a, b, n),
                  run_CBA_check_Http_connections(a, b, n)} : a, b \in BOOLEAN, n \in Few})
    \cup (UNION {{run_CBA_check_scheduled_backups(a, b), run_CBA_wait_datetime(a, b)} : a, b \in BOOLEAN})

Commands ==
    (UNION {{run_CBA_lock_proc(3, already), run_CBA_unlock_proc(3, already)} : already \in SUBSET (1 .. 3)})
    \cup (UNION {{set_envdata(b), run_CBA_envdata_unset(b), run_CBA_sync_ntp_server(b), enable_AandA(b),
                  disable_AandA(b), run_CBA_clean_app_logs(b), clean_logs(b), upload(b),
                  run_CBA_diacc_collect_info(b), run_CBA_cmw_collect_info(b),
                  run_CBA_get_diacc_dump_json(b), run_CBA_pmf_counter_sum(b)} : b \in BOOLEAN})
    \cup {run_CBA_disable_iTCO_watchdog(v, i, n, 2) : v, i, n \in BOOLEAN}
    \cup {run_CBA_collect_logs(c, t, r) :
            c, r \in BOOLEAN, t \in {{"alarms"}, {"alerts"}, {"applogs"}, {"alarms", "alerts", "applogs"}}}
    \cup {run_CBA_find_and_download(v, 2, p, r) : v, p, r \in BOOLEAN}
    \cup {wait_for_node_reload(order) : order \in {reload_node, reboot_node, cmw_reboot_sc}}
=============================================================================
