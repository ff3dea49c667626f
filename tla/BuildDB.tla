------------------------------ MODULE BuildDB ------------------------------
(***************************************************************************)
(* The data base of the RTC build handler and what each of its methods     *)
(* does to it (dbus/rtc_build_handler/build_handler/service.py).           *)
(*                                                                         *)
(* The three Python dictionaries are functions with a varying domain.      *)
(* Projects are numbers in LooseVersion order: sorted(.., LooseVersion) is *)
(* the numeric order.  A build belongs to the project (first three dotted  *)
(* parts of its name) and the release (first two) that the name spells;    *)
(* Matches says which builds a wildcard of clean/purge is a prefix of.     *)
(***************************************************************************)
EXTENDS Naturals, Sequences, FiniteSets

CONSTANTS
    Builds,         \* build identifiers
    Projects,       \* projects, numbered in version order
    ProjectOf,      \* get_project
    Releases,       \* keys of the baselines table
    ReleaseOf,      \* the baseline key get_release(build) leads to
    Wildcards,      \* prefixes given to clean_build and purge_build
    Matches,        \* the builds each wildcard is a prefix of
    Versions,       \* contents of a packages or GIT_repos entry
    Results,        \* test results
    None            \* Python's None

VARIABLE db         \* self.__db of the build handler

ASSUME BuildsAssumption ==
    /\ IsFiniteSet(Builds)
    /\ None \notin Builds \cup Versions
    /\ IsFiniteSet(Projects) /\ Projects \subseteq Nat
    /\ ProjectOf \in [Builds -> Projects]
    /\ ReleaseOf \in [Builds -> Releases]
    /\ Matches \in [Wildcards -> SUBSET Builds]

Status == {"NOT_TESTED", "TEST_ONGOING", "TESTED", "CANCELLED", "SKIPPED",
           "TEST_FAULTY"}

InfoKeys == {"packages", "GIT_repos"}

(* None marks an entry that is missing (or falsy). *)
TestInfo == [InfoKeys -> Versions \cup {None}]
EmptyInfo == [k \in InfoKeys |-> None]

Entry == [pending : Seq(Builds), high_priority : Builds \cup {None}]
Record == [test_info : TestInfo, test_result : Seq(Results), status : Status]

NoEntries == [x \in {} |-> None]
EmptyDB == [priority |-> NoEntries, build_info |-> NoEntries,
            baselines |-> NoEntries]

(* dict.update({k: v}) and del dict[k] *)
Put(f, k, v) ==
    [x \in DOMAIN f \cup {k} |-> IF x = k THEN v ELSE f[x]]
Without(f, S) == [x \in DOMAIN f \ S |-> f[x]]

Members(q) == {q[i] : i \in DOMAIN q}
Known(d) == DOMAIN d.build_info
Baselined(d) == {d.baselines[r] : r \in DOMAIN d.baselines}

DBType(d) ==
    /\ DOMAIN d = {"priority", "build_info", "baselines"}
    /\ DOMAIN d.priority \subseteq Projects
    /\ \A p \in DOMAIN d.priority : d.priority[p] \in Entry
    /\ Known(d) \subseteq Builds
    /\ \A b \in Known(d) : d.build_info[b] \in Record
    /\ DOMAIN d.baselines \subseteq Releases
    /\ Baselined(d) \subseteq Builds

----------------------------------------------------------------------------
(* list.remove for a list without duplicates: what comes before b, then    *)
(* what comes after it                                                     *)
IndexOf(q, b) == CHOOSE i \in DOMAIN q : q[i] = b
Before(q, b) == SubSeq(q, 1, IndexOf(q, b) - 1)
After(q, b) == SubSeq(q, IndexOf(q, b) + 1, Len(q))

(* clean_priority: forget the projects with nothing queued *)
clean_priority(d) ==
    [d EXCEPT !.priority = Without(@,
        {p \in DOMAIN d.priority : /\ d.priority[p].pending = <<>>
                                   /\ d.priority[p].high_priority = None})]

build_info_add(d, b, info) ==
    [d EXCEPT !.build_info = Put(@, b,
        [test_info |-> info, test_result |-> <<>>, status |-> "NOT_TESTED"])]

build_info_update(d, b, info) ==
    [d EXCEPT !.build_info[b].test_info =
        [k \in InfoKeys |-> IF info[k] = None THEN @[k] ELSE info[k]]]

(* mutant: a build is appended without looking whether it is queued *)
Mutant_priority_add(d, b) ==
    LET p == ProjectOf[b]
        q == IF p \in DOMAIN d.priority THEN d.priority[p]
             ELSE [pending |-> <<>>, high_priority |-> None]
    IN  clean_priority([d EXCEPT !.priority =
            Put(@, p, [q EXCEPT !.pending = Append(@, b)])])

(* a build is queued once; a project that has no entry yet gets one *)
priority_add(d, b) ==
    LET p == ProjectOf[b]
        q == IF p \in DOMAIN d.priority THEN d.priority[p]
             ELSE [pending |-> <<>>, high_priority |-> None]
    IN  clean_priority([d EXCEPT !.priority =
            Put(@, p, [q EXCEPT !.pending =
                IF b \in Members(@) THEN @ ELSE Append(@, b)])])

(* The first half of priority_del: out of the pending list or, failing     *)
(* that, out of the high priority slot.                                    *)
dequeue(d, b) ==
    LET p == ProjectOf[b]
        e == d.priority[p]
    IN  [d EXCEPT !.priority[p] =
            IF b \in Members(e.pending)
            THEN [e EXCEPT !.pending = Before(@, b) \o After(@, b)]
            ELSE [e EXCEPT !.high_priority = IF @ = b THEN None ELSE @]]

(* priority_del(update_status=True): a build not tested yet is skipped *)
skip(d, b) ==
    [d EXCEPT !.build_info[b].status =
        IF @ = "NOT_TESTED" THEN "SKIPPED" ELSE @]

(* priority_del returns early, with nothing cleaned, when the project has  *)
(* no entry, and also when the status to update belongs to no record; by   *)
(* then the build has left the queue.                                      *)
priority_del(d, b, update_status) ==
    IF ProjectOf[b] \notin DOMAIN d.priority THEN d
    ELSE IF update_status /\ b \notin Known(d) THEN dequeue(d, b)
    ELSE clean_priority(IF update_status THEN skip(dequeue(d, b), b)
                                         ELSE dequeue(d, b))

(* A promoted build takes the high priority slot of its project; it and    *)
(* the builds queued before it leave the pending list.                     *)
priority_increase(d, b) ==
    LET p == ProjectOf[b]
    IN  IF b \in Members(d.priority[p].pending)
        THEN clean_priority([d EXCEPT
                 !.priority[p].pending = After(@, b),
                 !.priority[p].high_priority = b])
        ELSE clean_priority(d)

baseline_add(d, b) ==
    [d EXCEPT !.baselines = Put(@, ReleaseOf[b], b)]

baseline_del(d, r) == [d EXCEPT !.baselines = Without(@, {r})]

(* mutant: a result leaves the status alone *)
Mutant_result_only(d, b, res) ==
    [d EXCEPT !.build_info[b].test_result = Append(@, res)]

(* mutant: a result means TESTED whatever the status was *)
Mutant_result_tested(d, b, res) ==
    [d EXCEPT !.build_info[b].status = "TESTED",
              !.build_info[b].test_result = Append(@, res)]

(* A result ends an ongoing test; a cancelled one stays cancelled. *)
add_build_test_result(d, b, res) ==
    [d EXCEPT !.build_info[b].status =
                  IF @ = "TEST_ONGOING" THEN "TESTED" ELSE @,
              !.build_info[b].test_result = Append(@, res)]

set_status(d, b, s) == [d EXCEPT !.build_info[b].status = s]

set_info(d, b, info) == [d EXCEPT !.build_info[b].test_info = info]

----------------------------------------------------------------------------
Promoted(d) == {p \in DOMAIN d.priority : d.priority[p].high_priority # None}
Waiting(d) == {p \in DOMAIN d.priority : d.priority[p].pending # <<>>}

Lowest(S) == CHOOSE p \in S : \A q \in S : p <= q
Highest(S) == CHOOSE p \in S : \A q \in S : q <= p

(* find_next_build: promoted builds first, oldest project first; then the  *)
(* last build queued for the newest project that has any.                  *)
find_next_build(d) ==
    IF Promoted(d) # {}
    THEN <<d.priority[Lowest(Promoted(d))].high_priority, TRUE>>
    ELSE IF Waiting(d) # {}
    THEN LET q == d.priority[Highest(Waiting(d))].pending
         IN  <<q[Len(q)], FALSE>>
    ELSE <<None, FALSE>>

(* mutant: the whole pending list goes with its last build *)
Mutant_extract(d) ==
    IF Promoted(d) # {}
    THEN [d EXCEPT !.priority[Lowest(Promoted(d))].high_priority = None]
    ELSE [d EXCEPT !.priority[Highest(Waiting(d))].pending = <<>>]

(* find_next_build(extract=True) also takes the build out *)
extract(d) ==
    IF Promoted(d) # {}
    THEN [d EXCEPT !.priority[Lowest(Promoted(d))].high_priority = None]
    ELSE [d EXCEPT !.priority[Highest(Waiting(d))].pending =
             SubSeq(@, 1, Len(@) - 1)]

is_there_build_to_test(d) == find_next_build(d)[1] # None

(* The part of clean_build that drops the record, or for a baseline only   *)
(* its results.                                                            *)
drop_record(d, b) ==
    IF b \in Baselined(d)
    THEN [d EXCEPT !.build_info[b].test_result = <<>>]
    ELSE [d EXCEPT !.build_info = Without(@, {b})]

(* the builds of q outside T, in their order *)
Remaining(q, T) ==
    LET kept[i \in 0 .. Len(q)] ==
            IF i = 0 THEN <<>>
            ELSE IF q[i] \in T THEN kept[i - 1] ELSE Append(kept[i - 1], q[i])
    IN  kept[Len(q)]

(* mutant: only the pending list is cleaned *)
Mutant_clean_build(d, S) ==
    LET T == {b \in S \cap Known(d) : d.build_info[b].status # "TEST_ONGOING"}
        left(e) == [pending |-> Remaining(e.pending, T), high_priority |-> e.high_priority]
        record(b) == IF b \in T THEN [d.build_info[b] EXCEPT !.test_result = <<>>]
                                ELSE d.build_info[b]
    IN  clean_priority(
            [d EXCEPT !.priority = [p \in DOMAIN @ |-> left(@[p])],
                      !.build_info = [b \in Known(d) \ (T \ Baselined(d)) |->
                                          record(b)]])

(* clean_build as one request, for the builds S that the wildcard matches  *)
(* and exclude does not name: a build under test is left alone.            *)
clean_build(d, S) ==
    LET T == {b \in S \cap Known(d) : d.build_info[b].status # "TEST_ONGOING"}
        left(e) ==
            [pending |-> Remaining(e.pending, T),
             high_priority |-> IF e.high_priority \in T \ Members(e.pending)
                               THEN None ELSE e.high_priority]
        record(b) == IF b \in T THEN [d.build_info[b] EXCEPT !.test_result = <<>>]
                                ELSE d.build_info[b]
    IN  clean_priority(
            [d EXCEPT !.priority = [p \in DOMAIN @ |-> left(@[p])],
                      !.build_info = [b \in Known(d) \ (T \ Baselined(d)) |->
                                          record(b)]])

purge_build(d, w) ==
    clean_priority([d EXCEPT !.build_info =
        [b \in Known(d) |->
            [d.build_info[b] EXCEPT !.test_result =
                IF b \in Matches[w] /\ Len(@) > 1 THEN <<@[Len(@)]>> ELSE @]]])
=============================================================================
