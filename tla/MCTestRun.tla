----------------------------- MODULE MCTestRun -----------------------------
(* A suite of a mandatory and an optional test case for TLC.                *)
EXTENDS TestRun

S(kind, on) == [kind |-> kind, on |-> on]

\* The mandatory case compares the node before and after the traffic and may be
\* repeated; the optional one holds the steps that cut phases and cases short.
MCSuite == <<
    [mandatory |-> TRUE, retries |-> 1, phases |->
        [PRE       |-> <<S("get", {"skip_phase_on_fail"})>>,
         EXECUTION |-> <<S("get", {})>>,
         POST      |-> <<S("get", {})>>,
         CHECK     |-> <<S("compare", {"add_to_verdict", "report_not_valid", "repeat"}),
                        S("traffic", {"add_to_verdict"})>>]],
    [mandatory |-> FALSE, retries |-> 1, phases |->
        [PRE       |-> <<S("background", {"exit_rtc_on_fail", "repeat"})>>,
         CHECK     |-> <<S("restarts", {}), S("measure", {"stop_on_fail"}),
                        S("framework_check", {"report_not_valid"})>>]]>>

MCPhases == <<"PRE", "EXECUTION", "POST", "CHECK">>
=============================================================================
