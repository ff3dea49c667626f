--------------------------- MODULE MCRtcService ---------------------------
(***************************************************************************)
(* Instances of the composed service for TLC: builds of one project or of  *)
(* two, with the trigger configuration the gateway's source suggests; a    *)
(* promoted build also becomes the baseline of its release.                *)
(***************************************************************************)
EXTENDS RtcService, TLC

CONSTANTS b1, b2, r1, v1, res

MCProjectOf == (b1 :> 1) @@ (b2 :> 1)
MCReleaseOf == (b1 :> r1) @@ (b2 :> r1)
MCNoMatches == [w \in {} |-> {}]
MCPrefix == [b \in Builds |-> Builds]

MCTriggers ==
    {"new_build", "faulty_build", "promote_release", "project_info", "release_info"}

(* builds announced and promoted *)
Promotions ==
    [triggers |-> {"new_build", "promote_release"}, commands |-> {"resume"},
     cli |-> 1, outcomes |-> {"ok"}, failures |-> {}]

(* and projects purged, while the service is paused *)
Purges ==
    [triggers |-> {"new_build", "promote_release", "project_info"},
     commands |-> {}, cli |-> 0, outcomes |-> {"ok"}, failures |-> {}]

(* builds announced, and tests that fail to start or die silently *)
FailedStarts ==
    [triggers |-> {"new_build"}, commands |-> {"resume"},
     cli |-> 1, outcomes |-> {"exit"},
     failures |-> {"config", "start", "thread", "tool"}]

(* builds announced and withdrawn, and tests whose channel breaks *)
Breakdowns ==
    [triggers |-> {"new_build", "faulty_build"}, commands |-> {"resume"},
     cli |-> 1, outcomes |-> {"exit"}, failures |-> {"clean", "channel"}]

(* builds forced by the operator, and projects purged *)
ForcedTests ==
    [triggers |-> {"new_build", "project_info"}, commands |-> {"resume", "force_build"},
     cli |-> 2, outcomes |-> {"exit"}, failures |-> {}]

(* an operator who pauses the service and resumes it *)
Pauses ==
    [triggers |-> {"new_build"}, commands |-> {"pause", "resume"},
     cli |-> 3, outcomes |-> {"ok", "fail", "skip", "exit"}, failures |-> {}]

(* builds announced, and their releases purged before or under test *)
ReleasePurges ==
    [triggers |-> {"new_build", "release_info"}, commands |-> {"resume"},
     cli |-> 1, outcomes |-> {"ok"}, failures |-> {}]

MCSafety == {Promotions, Purges, FailedStarts, Breakdowns, ForcedTests, ReleasePurges}
MCOperator == {Pauses}

MCSymmetry == Permutations({b1, b2})

MCTranslator ==
    [new_build |-> <<"build_info_add", "priority_add", "check_priority_list">>,
     faulty_build |-> <<"priority_del", "set_test_to_faulty">>,
     promote_release |-> <<"priority_increase", "emit_priority_increase",
                           "baseline_add">>,
     project_info |-> <<"project_info_purge">>,
     release_info |-> <<"release_info_purge">>]

(* what the theorems about the service ask of the lists and the scenarios *)
ASSUME MCHypotheses == QueuesOnce /\ ListsInOrder /\ ForcedUnbroken
=============================================================================
