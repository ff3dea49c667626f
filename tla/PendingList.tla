---------------------------- MODULE PendingList ----------------------------
(***************************************************************************)
(* fetch_pending_build_list of the build handler, the list rtc_cli shows,  *)
(* and what it is meant to show: the order in which get_build will hand    *)
(* the builds out.                                                         *)
(***************************************************************************)
EXTENDS BuildHandler, SequencesExt

(* sorted(..) of a set of projects, which are numbers in version order *)
sorted(S) ==
    CHOOSE s \in [1 .. Cardinality(S) -> S] :
        \A i, j \in 1 .. Cardinality(S) : i < j => s[i] < s[j]

(* what the first loop adds for a project: its promoted build, if any *)
high_part(d, p) ==
    IF d.priority[p].high_priority = None THEN <<>>
    ELSE <<<<d.priority[p].high_priority, TRUE>>>>

(* what the second loop adds: the pending builds, the newest first *)
pending_part(d, p) ==
    LET q == Reverse(d.priority[p].pending)
    IN  [i \in 1 .. Len(q) |-> <<q[i], FALSE>>]

(* mutant: the second loop forgets that the projects were to be reversed *)
Mutant_fetch_pending_build_list(d) ==
    LET project_list == sorted(DOMAIN d.priority)
        n == Len(project_list)
    IN  FlattenSeq([i \in 1 .. n |-> high_part(d, project_list[i])])
        \o FlattenSeq([i \in 1 .. n |-> pending_part(d, project_list[i])])

fetch_pending_build_list(d) ==
    LET project_list == sorted(DOMAIN d.priority)
        n == Len(project_list)
    IN  FlattenSeq([i \in 1 .. n |-> high_part(d, project_list[i])])
        \o FlattenSeq([i \in 1 .. n |-> pending_part(d, project_list[n + 1 - i])])

(* The data base after n calls of get_build, for n up to the length of the *)
(* list, with nothing queued meanwhile.                                    *)
Drained(d, list) ==
    LET after[n \in 0 .. Len(list)] == IF n = 0 THEN d ELSE extract(after[n - 1])
    IN  after

(* Between two requests, the list shown by rtc_cli is the order in which   *)
(* the builds are tested when nothing else is queued meanwhile: two        *)
(* separate pieces of code sort the projects (promoted builds: oldest      *)
(* project first, others: newest project first, newest build first) and    *)
(* have to agree.                                                          *)
ListIsTestOrder ==
    Idle =>
        LET list == fetch_pending_build_list(db)
            after == Drained(db, list)
        IN  /\ \A i \in 1 .. Len(list) : find_next_build(after[i - 1]) = list[i]
            /\ ~is_there_build_to_test(after[Len(list)])

=============================================================================
