------------------------- MODULE BuildHandlerProofs -------------------------
(***************************************************************************)
(* Proofs about the build handler, for any builds, projects, wildcards and *)
(* requests: what the data base holds stays well formed, the pending lists *)
(* stay sound and no baseline loses its record, in memory and in the file. *)
(*                                                                         *)
(* The second half is about the service around it (RtcService), for any    *)
(* triggers, trigger configuration, operator, suite and failures: the      *)
(* controller kills no test, its TEST_ONGOING is real and a build's own    *)
(* messages do not purge it; the last part follows a build from the queue  *)
(* to its result: a cancelled one stays so and none is forgotten.  At the  *)
(* end, the list of pending builds is the order in which they are tested.  *)
(***************************************************************************)
EXTENDS PendingList, RtcService, SequenceTheorems, FiniteSetTheorems, TLAPS

(* A pending list of project p whose builds all have a record in K. *)
QueueOK(q, p, K) ==
    /\ q \in Seq(Builds)
    /\ \A i \in DOMAIN q : q[i] \in K /\ ProjectOf[q[i]] = p
    /\ \A i, j \in DOMAIN q : q[i] = q[j] => i = j

(* What each of the three dictionaries satisfies between two statements of *)
(* a request; K is the set of builds that have a record.                   *)
PriorityOK(f, K) ==
    /\ DOMAIN f \subseteq Projects
    /\ \A p \in DOMAIN f : f[p] \in Entry /\ QueueOK(f[p].pending, p, K)

RecordOK(r) == r \in Record /\ Len(r.test_result) <= MaxResults

BuildInfoOK(f) ==
    /\ DOMAIN f \subseteq Builds
    /\ \A b \in DOMAIN f : RecordOK(f[b])

BaselinesOK(f, K) ==
    /\ DOMAIN f \subseteq Releases
    /\ \A r \in DOMAIN f : f[r] \in K

Good(d) ==
    /\ DOMAIN d = {"priority", "build_info", "baselines"}
    /\ PriorityOK(d.priority, Known(d))
    /\ BuildInfoOK(d.build_info)
    /\ BaselinesOK(d.baselines, Known(d))

(* The build clean_build is busy with has left the pending lists. *)
Unqueued(d, b) == \A p \in DOMAIN d.priority : b \notin Members(d.priority[p].pending)

(* The inductive invariant. *)
IndInv ==
    /\ Good(db)
    /\ Whole(file) => Good(file)
    /\ up \in BOOLEAN
    /\ todo \subseteq Known(db)
    /\ current \in Known(db) \cup {None}
    /\ current # None => /\ Unqueued(db, current)
                         /\ db.build_info[current].status # "TEST_ONGOING"
    /\ up /\ Whole(file) /\ todo = {} /\ current = None =>
           Known(file) = Known(db)
    /\ ~up => todo = {} /\ current = None

----------------------------------------------------------------------------
(* Queues *)

LEMMA EmptyQueue == \A p, K : QueueOK(<<>>, p, K)
BY DEF QueueOK

(* append() of a build that is not in the list *)
LEMMA AppendQueue ==
    ASSUME NEW p, NEW K, NEW q, QueueOK(q, p, K),
           NEW b \in Builds, b \in K, ProjectOf[b] = p, b \notin Members(q)
    PROVE  QueueOK(Append(q, b), p, K)
<1>1. /\ q \in Seq(Builds) /\ Len(q) \in Nat
      /\ DOMAIN q = 1 .. Len(q)
      /\ Append(q, b) \in Seq(Builds)
      /\ DOMAIN Append(q, b) = 1 .. (Len(q) + 1)
      /\ Append(q, b)[Len(q) + 1] = b
      /\ \A i \in 1 .. Len(q) : Append(q, b)[i] = q[i]
    BY DEF QueueOK
<1>2. \A i \in 1 .. (Len(q) + 1) : i = Len(q) + 1 \/ i \in 1 .. Len(q)
    BY <1>1
<1>3. \A i \in 1 .. Len(q) : q[i] # b
    BY <1>1 DEF Members
<1>4. QED BY <1>1, <1>2, <1>3 DEF QueueOK

(* any stretch of a list *)
LEMMA SubQueue ==
    ASSUME NEW p, NEW K, NEW q, QueueOK(q, p, K),
           NEW m \in Nat, m >= 1, NEW n \in Nat, n <= Len(q)
    PROVE  QueueOK(SubSeq(q, m, n), p, K)
<1>1. q \in Seq(Builds) /\ Len(q) \in Nat /\ DOMAIN q = 1 .. Len(q)
    BY DEF QueueOK
<1>2. CASE m > n
  <2>1. SubSeq(q, m, n) = <<>>
      BY <1>1, <1>2
  <2>2. QED BY <2>1 DEF QueueOK
<1>3. CASE m <= n
  <2>1. /\ SubSeq(q, m, n) \in Seq(Builds)
        /\ DOMAIN SubSeq(q, m, n) = 1 .. (n - m + 1)
        /\ \A i \in 1 .. (n - m + 1) : SubSeq(q, m, n)[i] = q[m + i - 1]
      BY <1>1, <1>3, SubSeqProperties
  <2>2. \A i \in 1 .. (n - m + 1) : m + i - 1 \in 1 .. Len(q)
      BY <1>1, <1>3
  <2> DEFINE s == SubSeq(q, m, n)
  <2>3. \A i \in DOMAIN s : s[i] \in K /\ ProjectOf[s[i]] = p
    <3>1. TAKE i \in DOMAIN s
    <3>2. m + i - 1 \in DOMAIN q /\ s[i] = q[m + i - 1]
        BY <1>1, <2>1, <2>2
    <3> HIDE DEF s
    <3>3. QED BY <3>2 DEF QueueOK
  <2>4. \A i, j \in DOMAIN s : s[i] = s[j] => i = j
    <3>1. TAKE i, j \in DOMAIN s
    <3>2. /\ m + i - 1 \in DOMAIN q /\ s[i] = q[m + i - 1]
          /\ m + j - 1 \in DOMAIN q /\ s[j] = q[m + j - 1]
          /\ i \in Int /\ j \in Int
        BY <1>1, <2>1, <2>2
    <3> HIDE DEF s
    <3>3. HAVE s[i] = s[j]
    <3>4. m + i - 1 = m + j - 1
        BY <3>2, <3>3 DEF QueueOK
    <3>5. QED BY <3>2, <3>4
  <2>5. QED BY <2>1, <2>3, <2>4 DEF QueueOK
<1>4. QED BY <1>2, <1>3

(* remove() takes out the build and keeps the order of the others *)
LEMMA RemoveFromQueue ==
    ASSUME NEW p, NEW K, NEW q, QueueOK(q, p, K),
           NEW b \in Builds, b \in Members(q)
    PROVE  /\ QueueOK(Before(q, b) \o After(q, b), p, K)
           /\ b \notin Members(Before(q, b) \o After(q, b))
           /\ QueueOK(After(q, b), p, K)
<1> DEFINE k == IndexOf(q, b)
           s == Before(q, b) \o After(q, b)
<1>1. /\ q \in Seq(Builds) /\ Len(q) \in Nat
      /\ DOMAIN q = 1 .. Len(q)
      /\ \A i, j \in DOMAIN q : q[i] = q[j] => i = j
      /\ \A i \in DOMAIN q : q[i] \in K /\ ProjectOf[q[i]] = p
    BY DEF QueueOK
<1>2. k \in 1 .. Len(q) /\ q[k] = b
  <2>1. \E i \in DOMAIN q : q[i] = b
      BY DEF Members
  <2>2. QED BY <1>1, <2>1 DEF IndexOf
<1>3. QueueOK(After(q, b), p, K)
    BY <1>1, <1>2, SubQueue DEF After
<1>4. QueueOK(Before(q, b), p, K)
    BY <1>1, <1>2, SubQueue DEF Before
<1>5. /\ Len(Before(q, b)) = k - 1
      /\ \A i \in 1 .. (k - 1) : Before(q, b)[i] = q[i]
      /\ Len(After(q, b)) = Len(q) - k
      /\ \A i \in 1 .. (Len(q) - k) : After(q, b)[i] = q[k + i]
  <2> HIDE DEF k
  <2>1. /\ Len(SubSeq(q, 1, k - 1)) = k - 1
        /\ \A i \in 1 .. (k - 1) : SubSeq(q, 1, k - 1)[i] = q[i]
      BY <1>1, <1>2, SubSeqProperties
  <2>2. /\ Len(SubSeq(q, k + 1, Len(q))) = Len(q) - k
        /\ \A i \in 1 .. (Len(q) - k) :
               SubSeq(q, k + 1, Len(q))[i] = q[k + i]
    <3> DEFINE m == k + 1
               n == Len(q)
    <3>1. /\ k \in Nat /\ Len(q) \in Nat /\ 1 <= k /\ k <= Len(q)
          /\ \A i \in k + 1 .. Len(q) : q[i] \in Builds
      <4>1. k \in Nat /\ Len(q) \in Nat /\ 1 <= k /\ k <= Len(q)
          BY <1>1, <1>2
      <4>2. \A i \in k + 1 .. Len(q) : i \in DOMAIN q
          BY <1>1, <4>1
      <4>3. QED BY <1>1, <4>1, <4>2
    <3>2. m \in Int /\ n \in Int /\ \A i \in m .. n : q[i] \in Builds
        BY <3>1
    <3>3. n - m + 1 = Len(q) - k /\ (m > n => Len(q) - k = 0)
        BY <3>1
    <3>4. \A i \in 1 .. (Len(q) - k) : m + i - 1 = k + i
        BY <3>1
    <3> HIDE DEF m, n
    <3>5. /\ Len(SubSeq(q, m, n)) = IF m <= n THEN n - m + 1 ELSE 0
          /\ \A i \in 1 .. n - m + 1 : SubSeq(q, m, n)[i] = q[m + i - 1]
        BY <3>2, SubSeqProperties
    <3>6. \A i \in 1 .. (Len(q) - k) : SubSeq(q, m, n)[i] = q[k + i]
        BY <3>5, <3>3, <3>4
    <3>7. Len(SubSeq(q, m, n)) = Len(q) - k
        BY <3>2, <3>3, <3>5
    <3>8. QED BY <3>6, <3>7 DEF m, n
  <2>3. QED BY <2>1, <2>2 DEF Before, After, k
<1>6. /\ s \in Seq(Builds) /\ DOMAIN s = 1 .. (Len(q) - 1)
      /\ \A i \in 1 .. (Len(q) - 1) :
             s[i] = IF i < k THEN q[i] ELSE q[i + 1]
  <2>1. Before(q, b) \in Seq(Builds) /\ After(q, b) \in Seq(Builds)
      BY <1>3, <1>4 DEF QueueOK
  <2>2. /\ s \in Seq(Builds)
        /\ Len(s) = Len(q) - 1
        /\ \A i \in 1 .. Len(s) :
               s[i] = IF i <= k - 1 THEN Before(q, b)[i]
                                    ELSE After(q, b)[i - (k - 1)]
    <3> DEFINE u == Before(q, b)
               v == After(q, b)
    <3>1. /\ u \o v \in Seq(Builds)
          /\ Len(u \o v) = Len(u) + Len(v)
          /\ \A i \in 1 .. Len(u) + Len(v) :
                 (u \o v)[i] = IF i <= Len(u) THEN u[i] ELSE v[i - Len(u)]
        BY <2>1, ConcatProperties
    <3>2. Len(u) = k - 1 /\ Len(v) = Len(q) - k /\ Len(q) \in Nat /\ k \in Nat
        BY <1>1, <1>2, <1>5
    <3>3. s = u \o v
        OBVIOUS
    <3> HIDE DEF u, v, k, s
    <3>4. Len(s) = Len(q) - 1
        BY <3>1, <3>2, <3>3
    <3>5. \A i \in 1 .. Len(s) :
              s[i] = IF i <= k - 1 THEN u[i] ELSE v[i - (k - 1)]
        BY <3>1, <3>2, <3>3
    <3>6. QED BY <3>1, <3>3, <3>4, <3>5 DEF u, v
  <2> HIDE DEF k, s
  <2>3. ASSUME NEW i \in 1 .. (Len(q) - 1)
        PROVE  s[i] = IF i < k THEN q[i] ELSE q[i + 1]
    <3>1. CASE i < k
        BY <1>1, <1>2, <1>5, <2>2, <3>1
    <3>2. CASE ~(i < k)
      <4>1. i - (k - 1) \in 1 .. (Len(q) - k) /\ k + (i - (k - 1)) = i + 1
          BY <1>1, <1>2, <3>2
      <4>2. s[i] = After(q, b)[i - (k - 1)]
          BY <1>1, <1>2, <2>2, <3>2
      <4>3. QED BY <1>5, <3>2, <4>1, <4>2
    <3>3. QED BY <3>1, <3>2
  <2>4. QED BY <2>2, <2>3
<1> HIDE DEF k, s
<1>7. \A i \in 1 .. (Len(q) - 1) :
          IF i < k THEN i \in 1 .. Len(q) ELSE i + 1 \in 1 .. Len(q)
    BY <1>1, <1>2
<1>8. QueueOK(s, p, K)
  <2>1. \A i \in DOMAIN s : s[i] \in K /\ ProjectOf[s[i]] = p
      BY <1>1, <1>6, <1>7
  <2>2. ASSUME NEW i \in DOMAIN s, NEW j \in DOMAIN s, s[i] = s[j]
        PROVE  i = j
    <3>1. (IF i < k THEN i ELSE i + 1) = (IF j < k THEN j ELSE j + 1)
        BY <1>1, <1>6, <1>7, <2>2
    <3>2. QED BY <1>2, <1>6, <3>1
  <2>3. QED BY <1>6, <2>1, <2>2 DEF QueueOK
<1>9. b \notin Members(s)
  <2> SUFFICES ASSUME NEW i \in DOMAIN s, s[i] = b PROVE FALSE
      BY DEF Members
  <2>1. i \in 1 .. (Len(q) - 1)
      BY <1>6
  <2>2. CASE i < k
    <3>1. q[i] = q[k] /\ i \in DOMAIN q /\ k \in DOMAIN q
        BY <1>1, <1>2, <1>6, <1>7, <2>1, <2>2
    <3>2. QED BY <1>1, <2>2, <3>1
  <2>3. CASE ~(i < k)
    <3>1. q[i + 1] = q[k] /\ i + 1 \in DOMAIN q /\ k \in DOMAIN q
        BY <1>1, <1>2, <1>6, <1>7, <2>1, <2>3
    <3>2. i + 1 = k
        BY <1>1, <3>1
    <3>3. QED BY <1>2, <2>1, <2>3, <3>2
  <2>4. QED BY <2>2, <2>3
<1>10. QED BY <1>3, <1>8, <1>9 DEF s

----------------------------------------------------------------------------
(* Changing one dictionary of a good data base *)

LEMMA SetPriority ==
    ASSUME NEW d, Good(d), NEW f, PriorityOK(f, Known(d))
    PROVE  Good([d EXCEPT !.priority = f])
BY DEF Good, Known

LEMMA SetBaselines ==
    ASSUME NEW d, Good(d), NEW f, BaselinesOK(f, Known(d))
    PROVE  Good([d EXCEPT !.baselines = f])
BY DEF Good, Known

(* new records, none taken away *)
LEMMA SetBuildInfo ==
    ASSUME NEW d, Good(d), NEW f, BuildInfoOK(f), Known(d) \subseteq DOMAIN f
    PROVE  Good([d EXCEPT !.build_info = f])
<1> DEFINE e == [d EXCEPT !.build_info = f]
<1>1. /\ DOMAIN e = {"priority", "build_info", "baselines"}
      /\ e.priority = d.priority /\ e.baselines = d.baselines
      /\ e.build_info = f
    BY DEF Good
<1> HIDE DEF e
<1>2. PriorityOK(e.priority, Known(e))
    BY <1>1 DEF Good, PriorityOK, QueueOK, Known
<1>3. BaselinesOK(e.baselines, Known(e))
    BY <1>1 DEF Good, BaselinesOK, Known
<1>4. QED BY <1>1, <1>2, <1>3 DEF Good, e

(* one record changed in place *)
LEMMA SetRecord ==
    ASSUME NEW d, Good(d), NEW b \in Known(d), NEW r, RecordOK(r)
    PROVE  /\ Good([d EXCEPT !.build_info[b] = r])
           /\ Known([d EXCEPT !.build_info[b] = r]) = Known(d)
<1> DEFINE f == [d.build_info EXCEPT ![b] = r]
<1>1. DOMAIN f = Known(d) /\ BuildInfoOK(f)
    BY DEF Good, BuildInfoOK, Known
<1>2. [d EXCEPT !.build_info[b] = r] = [d EXCEPT !.build_info = f]
    OBVIOUS
<1> HIDE DEF f
<1>3. Good([d EXCEPT !.build_info = f])
    BY <1>1, SetBuildInfo
<1>4. Known([d EXCEPT !.build_info = f]) = DOMAIN f
    BY DEF Good, Known
<1>5. QED BY <1>1, <1>2, <1>3, <1>4

(* clean_priority only forgets entries *)
LEMMA CleanPriorityGood ==
    ASSUME NEW d, Good(d)
    PROVE  /\ Good(clean_priority(d))
           /\ Known(clean_priority(d)) = Known(d)
           /\ \A b : Unqueued(d, b) => Unqueued(clean_priority(d), b)
<1> DEFINE E == {p \in DOMAIN d.priority : /\ d.priority[p].pending = <<>>
                                           /\ d.priority[p].high_priority = None}
           f == Without(d.priority, E)
<1>1. clean_priority(d) = [d EXCEPT !.priority = f]
    BY DEF clean_priority
<1>2. DOMAIN f \subseteq DOMAIN d.priority /\ \A p \in DOMAIN f : f[p] = d.priority[p]
    BY DEF Without
<1> HIDE DEF f
<1>3. PriorityOK(f, Known(d))
    BY <1>2 DEF Good, PriorityOK
<1>4. /\ clean_priority(d).priority = f
      /\ Known(clean_priority(d)) = Known(d)
    BY <1>1 DEF Good, Known
<1>5. QED BY <1>1, <1>2, <1>3, <1>4, SetPriority DEF Unqueued

(* one entry of the priority table changed or added *)
LEMMA PutEntry ==
    ASSUME NEW d, Good(d), NEW p \in Projects, NEW e \in Entry,
           QueueOK(e.pending, p, Known(d))
    PROVE  PriorityOK(Put(d.priority, p, e), Known(d))
BY DEF Good, PriorityOK, Put

----------------------------------------------------------------------------
(* Each method of the build handler keeps the data base good *)

LEMMA BuildInfoAddGood ==
    ASSUME NEW d, Good(d), NEW b \in Builds, NEW info \in TestInfo
    PROVE  /\ Good(build_info_add(d, b, info))
           /\ Known(d) \subseteq Known(build_info_add(d, b, info))
<1> DEFINE r == [test_info |-> info, test_result |-> <<>>, status |-> "NOT_TESTED"]
           f == Put(d.build_info, b, r)
<1>1. RecordOK(r)
    BY InputsAssumption DEF RecordOK, Record, Status
<1> HIDE DEF r
<1>2. BuildInfoOK(f) /\ Known(d) \subseteq DOMAIN f
    BY <1>1 DEF Good, BuildInfoOK, Put, Known
<1> HIDE DEF f
<1>3. build_info_add(d, b, info) = [d EXCEPT !.build_info = f]
    BY DEF build_info_add, f, r
<1>4. Known(build_info_add(d, b, info)) = DOMAIN f
    BY <1>3 DEF Good, Known
<1>5. QED BY <1>2, <1>3, <1>4, SetBuildInfo

(* The data base is good again and has the same records. *)
Same(d, e) == Good(e) /\ Known(e) = Known(d)

(* the methods that rewrite fields of one record *)
LEMMA RecordEditsGood ==
    ASSUME NEW d, Good(d), NEW b \in Known(d)
    PROVE  /\ \A info \in TestInfo : Same(d, build_info_update(d, b, info))
           /\ \A info \in TestInfo : Same(d, set_info(d, b, info))
           /\ \A x \in Status : Same(d, set_status(d, b, x))
           /\ Same(d, skip(d, b))
           /\ \A res \in Results :
                  Len(d.build_info[b].test_result) < MaxResults =>
                      Same(d, add_build_test_result(d, b, res))
<1> DEFINE r == d.build_info[b]
           edit(x) == [d EXCEPT !.build_info[b] = x]
<1>1. /\ r \in Record /\ Len(r.test_result) <= MaxResults
      /\ r.test_info \in TestInfo /\ r.status \in Status
      /\ r.test_result \in Seq(Results)
    BY DEF Good, BuildInfoOK, RecordOK, Record, Known
<1>2. \A x : RecordOK(x) => Same(d, edit(x))
    BY SetRecord DEF Same
<1>3. ASSUME NEW info \in TestInfo PROVE Same(d, build_info_update(d, b, info))
  <2> DEFINE i == [k \in InfoKeys |-> IF info[k] = None THEN r.test_info[k] ELSE info[k]]
             x == [r EXCEPT !.test_info = i]
  <2>1. i \in TestInfo
      BY <1>1 DEF TestInfo
  <2>2. build_info_update(d, b, info) = edit(x)
      BY DEF build_info_update
  <2> HIDE DEF i
  <2>3. RecordOK(x)
      BY <1>1, <2>1 DEF RecordOK, Record
  <2>4. QED BY <1>2, <2>2, <2>3
<1>4. ASSUME NEW info \in TestInfo
      PROVE  Same(d, set_info(d, b, info))
  <2>1. RecordOK([r EXCEPT !.test_info = info])
      BY <1>1 DEF RecordOK, Record
  <2>2. set_info(d, b, info) = edit([r EXCEPT !.test_info = info])
      BY DEF set_info
  <2>3. QED BY <1>2, <2>1, <2>2
<1>5. ASSUME NEW x \in Status PROVE Same(d, set_status(d, b, x))
  <2>1. RecordOK([r EXCEPT !.status = x])
      BY <1>1 DEF RecordOK, Record
  <2>2. set_status(d, b, x) = edit([r EXCEPT !.status = x])
      BY DEF set_status
  <2>3. QED BY <1>2, <2>1, <2>2
<1>6. Same(d, skip(d, b))
  <2> DEFINE x == IF r.status = "NOT_TESTED" THEN "SKIPPED" ELSE r.status
  <2>1. x \in Status
      BY <1>1 DEF Status
  <2>2. skip(d, b) = edit([r EXCEPT !.status = x])
      BY DEF skip
  <2> HIDE DEF x
  <2>3. RecordOK([r EXCEPT !.status = x])
      BY <1>1, <2>1 DEF RecordOK, Record
  <2>4. QED BY <1>2, <2>2, <2>3
<1>7. ASSUME NEW res \in Results, Len(r.test_result) < MaxResults
      PROVE  Same(d, add_build_test_result(d, b, res))
  <2> DEFINE x == IF r.status = "TEST_ONGOING" THEN "TESTED" ELSE r.status
             y == Append(r.test_result, res)
             z == [r EXCEPT !.status = x, !.test_result = y]
  <2>1. x \in Status
      BY <1>1 DEF Status
  <2>2. y \in Seq(Results) /\ Len(y) <= MaxResults
      BY <1>1, <1>7, InputsAssumption
  <2>3. add_build_test_result(d, b, res) = edit(z)
      BY DEF add_build_test_result, Good, Known
  <2> HIDE DEF x, y
  <2>4. RecordOK(z)
      BY <1>1, <2>1, <2>2 DEF RecordOK, Record
  <2>5. QED BY <1>2, <2>3, <2>4
<1>8. QED BY <1>3, <1>4, <1>5, <1>6, <1>7

LEMMA BaselineGood ==
    ASSUME NEW d, Good(d)
    PROVE  /\ \A b \in Builds : b \in Known(d) => Same(d, baseline_add(d, b))
           /\ \A x : Same(d, baseline_del(d, x))
<1>1. ASSUME NEW b \in Builds, b \in Known(d) PROVE Same(d, baseline_add(d, b))
  <2>1. BaselinesOK(Put(d.baselines, ReleaseOf[b], b), Known(d))
      BY <1>1, BuildsAssumption DEF Good, BaselinesOK, Put
  <2>2. baseline_add(d, b) = [d EXCEPT !.baselines = Put(d.baselines, ReleaseOf[b], b)]
      BY DEF baseline_add
  <2>3. QED BY <2>1, <2>2, SetBaselines DEF Same, Good, Known
<1>2. ASSUME NEW x PROVE Same(d, baseline_del(d, x))
  <2>1. BaselinesOK(Without(d.baselines, {x}), Known(d))
      BY DEF Good, BaselinesOK, Without
  <2>2. baseline_del(d, x) = [d EXCEPT !.baselines = Without(d.baselines, {x})]
      BY DEF baseline_del
  <2>3. QED BY <2>1, <2>2, SetBaselines DEF Same, Good, Known
<1>3. QED BY <1>1, <1>2

----------------------------------------------------------------------------
(* The methods that change the queue *)

LEMMA SetEntry ==
    ASSUME NEW d, Good(d), NEW p \in DOMAIN d.priority, NEW e \in Entry,
           QueueOK(e.pending, p, Known(d))
    PROVE  /\ Good([d EXCEPT !.priority[p] = e])
           /\ Known([d EXCEPT !.priority[p] = e]) = Known(d)
           /\ [d EXCEPT !.priority[p] = e].priority = [d.priority EXCEPT ![p] = e]
<1> DEFINE f == [d.priority EXCEPT ![p] = e]
<1>1. PriorityOK(f, Known(d))
    BY DEF Good, PriorityOK
<1>2. [d EXCEPT !.priority[p] = e] = [d EXCEPT !.priority = f]
    OBVIOUS
<1> HIDE DEF f
<1>3. [d EXCEPT !.priority = f].priority = f /\ Known([d EXCEPT !.priority = f]) = Known(d)
    BY DEF Good, Known
<1>4. QED BY <1>1, <1>2, <1>3, SetPriority DEF f

LEMMA PriorityAddGood ==
    ASSUME NEW d, Good(d), NEW b \in Builds, b \in Known(d)
    PROVE  Good(priority_add(d, b)) /\ Known(priority_add(d, b)) = Known(d)
<1> DEFINE p == ProjectOf[b]
           q == IF p \in DOMAIN d.priority THEN d.priority[p]
                ELSE [pending |-> <<>>, high_priority |-> None]
           s == IF b \in Members(q.pending) THEN q.pending ELSE Append(q.pending, b)
           e == [q EXCEPT !.pending = s]
           c == [d EXCEPT !.priority = Put(d.priority, p, e)]
<1>1. p \in Projects
    BY BuildsAssumption
<1>2. q \in Entry /\ QueueOK(q.pending, p, Known(d))
    BY DEF Good, PriorityOK, Entry, QueueOK
<1> HIDE DEF q, p
<1>3. QueueOK(s, p, Known(d))
    BY <1>2, AppendQueue DEF p
<1>4. s \in Seq(Builds)
    BY <1>3 DEF QueueOK
<1> HIDE DEF s
<1>5. e \in Entry /\ e.pending = s
    BY <1>2, <1>4 DEF Entry
<1> HIDE DEF e
<1>6. Good(c)
    BY <1>1, <1>3, <1>5, PutEntry, SetPriority
<1>7. Known(c) = Known(d)
    BY DEF Good, Known
<1>8. priority_add(d, b) = clean_priority(c)
    BY DEF priority_add, p, q, s, e
<1>9. QED BY <1>6, <1>7, <1>8, CleanPriorityGood

(* priority_del takes the build out of every pending list *)
LEMMA DequeueGood ==
    ASSUME NEW d, Good(d), NEW b \in Builds, ProjectOf[b] \in DOMAIN d.priority
    PROVE  /\ Good(dequeue(d, b)) /\ Known(dequeue(d, b)) = Known(d)
           /\ Unqueued(dequeue(d, b), b)
<1> DEFINE p == ProjectOf[b]
           e == d.priority[p]
           n == IF b \in Members(e.pending)
                THEN [e EXCEPT !.pending = Before(e.pending, b) \o After(e.pending, b)]
                ELSE [e EXCEPT !.high_priority =
                         IF e.high_priority = b THEN None ELSE e.high_priority]
<1>1. e \in Entry /\ QueueOK(e.pending, p, Known(d))
    BY DEF Good, PriorityOK
<1>2. n \in Entry /\ QueueOK(n.pending, p, Known(d)) /\ b \notin Members(n.pending)
  <2>1. CASE b \in Members(e.pending)
    <3> DEFINE s == Before(e.pending, b) \o After(e.pending, b)
    <3>1. QueueOK(s, p, Known(d)) /\ b \notin Members(s)
        BY <1>1, <2>1, RemoveFromQueue
    <3>2. n = [e EXCEPT !.pending = s]
        BY <2>1
    <3> HIDE DEF s, n, e, p
    <3>3. s \in Seq(Builds)
        BY <3>1 DEF QueueOK
    <3>4. n \in Entry /\ n.pending = s
        BY <1>1, <3>2, <3>3 DEF Entry
    <3>5. QED BY <3>1, <3>4
  <2>2. CASE b \notin Members(e.pending)
    <3> DEFINE h == IF e.high_priority = b THEN None ELSE e.high_priority
    <3>1. n = [e EXCEPT !.high_priority = h]
        BY <2>2
    <3>2. h \in Builds \cup {None}
        BY <1>1 DEF Entry
    <3> HIDE DEF h, n, e, p
    <3>3. n \in Entry /\ n.pending = e.pending
        BY <1>1, <3>1, <3>2 DEF Entry
    <3>4. QED BY <1>1, <2>2, <3>3
  <2>3. QED BY <2>1, <2>2
<1>3. dequeue(d, b) = [d EXCEPT !.priority[p] = n]
    BY DEF dequeue
<1> HIDE DEF n, e
<1>4. /\ Good(dequeue(d, b)) /\ Known(dequeue(d, b)) = Known(d)
      /\ dequeue(d, b).priority = [d.priority EXCEPT ![p] = n]
    BY <1>2, <1>3, SetEntry
<1>5. ASSUME NEW x \in DOMAIN d.priority, x # p
      PROVE  b \notin Members(d.priority[x].pending)
    BY <1>5 DEF Good, PriorityOK, QueueOK, Members
<1>6. Unqueued(dequeue(d, b), b)
    BY <1>2, <1>4, <1>5 DEF Unqueued
<1>7. QED BY <1>4, <1>6

LEMMA PriorityDelGood ==
    ASSUME NEW d, Good(d), NEW b \in Builds, NEW u \in BOOLEAN
    PROVE  /\ Good(priority_del(d, b, u)) /\ Known(priority_del(d, b, u)) = Known(d)
           /\ ~u => Unqueued(priority_del(d, b, u), b)
<1>1. CASE ProjectOf[b] \notin DOMAIN d.priority
  <2>1. priority_del(d, b, u) = d
      BY <1>1 DEF priority_del
  <2>2. Unqueued(d, b)
      BY <1>1 DEF Unqueued, Good, PriorityOK, QueueOK, Members
  <2>3. QED BY <2>1, <2>2
<1>2. CASE ProjectOf[b] \in DOMAIN d.priority
  <2> DEFINE c == dequeue(d, b)
  <2>1. Good(c) /\ Known(c) = Known(d) /\ Unqueued(c, b)
      BY <1>2, DequeueGood
  <2> HIDE DEF c
  <2>2. CASE u /\ b \notin Known(d)
    <3>1. priority_del(d, b, u) = c
        BY <1>2, <2>2 DEF priority_del, c
    <3>2. QED BY <2>1, <2>2, <3>1
  <2>3. CASE u /\ b \in Known(d)
    <3>1. priority_del(d, b, u) = clean_priority(skip(c, b))
        BY <1>2, <2>3 DEF priority_del, c
    <3>2. Good(skip(c, b)) /\ Known(skip(c, b)) = Known(d)
        BY <2>1, <2>3, RecordEditsGood DEF Same
    <3>3. QED BY <2>3, <3>1, <3>2, CleanPriorityGood
  <2>4. CASE ~u
    <3>1. priority_del(d, b, u) = clean_priority(c)
        BY <1>2, <2>4 DEF priority_del, c
    <3>2. QED BY <2>1, <3>1, CleanPriorityGood
  <2>5. QED BY <2>2, <2>3, <2>4
<1>3. QED BY <1>1, <1>2

LEMMA PriorityIncreaseGood ==
    ASSUME NEW d, Good(d), NEW b \in Builds, ProjectOf[b] \in DOMAIN d.priority
    PROVE  /\ Good(priority_increase(d, b))
           /\ Known(priority_increase(d, b)) = Known(d)
<1> DEFINE p == ProjectOf[b]
           e == d.priority[p]
<1>1. e \in Entry /\ QueueOK(e.pending, p, Known(d))
    BY DEF Good, PriorityOK
<1>2. CASE b \in Members(e.pending)
  <2> DEFINE s == After(e.pending, b)
             n == [e EXCEPT !.pending = s, !.high_priority = b]
             c == [d EXCEPT !.priority[p] = n]
  <2>1. QueueOK(s, p, Known(d))
      BY <1>1, <1>2, RemoveFromQueue
  <2>2. s \in Seq(Builds)
      BY <2>1 DEF QueueOK
  <2>3. priority_increase(d, b) = clean_priority(c)
      BY <1>2 DEF priority_increase
  <2> HIDE DEF s
  <2>4. n \in Entry /\ n.pending = s
      BY <1>1, <2>2 DEF Entry
  <2> HIDE DEF n
  <2>5. Good(c) /\ Known(c) = Known(d)
      BY <2>1, <2>4, SetEntry
  <2>6. QED BY <2>3, <2>5, CleanPriorityGood
<1>3. CASE b \notin Members(e.pending)
    BY <1>3, CleanPriorityGood DEF priority_increase
<1>4. QED BY <1>2, <1>3

(* find_next_build(extract=True), whichever project it settles on *)
LEMMA ExtractGood ==
    ASSUME NEW d, Good(d)
    PROVE  Good(extract(d)) /\ Known(extract(d)) = Known(d)
<1>1. ASSUME NEW p
      PROVE  /\ Good([d EXCEPT !.priority[p].high_priority = None])
             /\ Known([d EXCEPT !.priority[p].high_priority = None]) = Known(d)
  <2>1. CASE p \notin DOMAIN d.priority
    <3>1. PriorityOK([d.priority EXCEPT ![p].high_priority = None], Known(d))
        BY <2>1 DEF Good, PriorityOK
    <3>2. QED BY <3>1, SetPriority DEF Good, Known
  <2>2. CASE p \in DOMAIN d.priority
    <3> DEFINE e == d.priority[p]
               n == [e EXCEPT !.high_priority = None]
    <3>1. e \in Entry /\ QueueOK(e.pending, p, Known(d))
        BY <2>2 DEF Good, PriorityOK
    <3>2. n \in Entry /\ n.pending = e.pending
        BY <3>1 DEF Entry
    <3>3. [d EXCEPT !.priority[p].high_priority = None] = [d EXCEPT !.priority[p] = n]
        BY <2>2 DEF Good
    <3> HIDE DEF n
    <3>4. QED BY <2>2, <3>1, <3>2, <3>3, SetEntry
  <2>3. QED BY <2>1, <2>2
<1>2. ASSUME NEW p
      PROVE  /\ Good([d EXCEPT !.priority[p].pending = SubSeq(@, 1, Len(@) - 1)])
             /\ Known([d EXCEPT !.priority[p].pending = SubSeq(@, 1, Len(@) - 1)])
                    = Known(d)
  <2>1. CASE p \notin DOMAIN d.priority
    <3>1. PriorityOK([d.priority EXCEPT ![p].pending = SubSeq(@, 1, Len(@) - 1)],
                     Known(d))
        BY <2>1 DEF Good, PriorityOK
    <3>2. QED BY <3>1, SetPriority DEF Good, Known
  <2>2. CASE p \in DOMAIN d.priority
    <3> DEFINE e == d.priority[p]
               s == SubSeq(e.pending, 1, Len(e.pending) - 1)
               n == [e EXCEPT !.pending = s]
    <3>1. e \in Entry /\ QueueOK(e.pending, p, Known(d)) /\ e.pending \in Seq(Builds)
        BY <2>2 DEF Good, PriorityOK, QueueOK
    <3>2. [d EXCEPT !.priority[p].pending = SubSeq(@, 1, Len(@) - 1)]
              = [d EXCEPT !.priority[p] = n]
        BY <2>2 DEF Good
    <3>3. QueueOK(s, p, Known(d))
      <4>1. CASE Len(e.pending) = 0
        <5>1. s = <<>>
            BY <3>1, <4>1
        <5>2. QED BY <5>1, EmptyQueue
      <4>2. CASE Len(e.pending) # 0
          BY <3>1, <4>2, SubQueue
      <4>3. QED BY <4>1, <4>2
    <3>4. s \in Seq(Builds)
        BY <3>3 DEF QueueOK
    <3> HIDE DEF s
    <3>5. n \in Entry /\ n.pending = s
        BY <3>1, <3>4 DEF Entry
    <3> HIDE DEF n
    <3>6. QED BY <2>2, <3>2, <3>3, <3>5, SetEntry
  <2>3. QED BY <2>1, <2>2
<1>3. QED BY <1>1, <1>2 DEF extract

(* A record is dropped only when no pending list and no baseline names it. *)
LEMMA DropRecordGood ==
    ASSUME NEW d, Good(d), NEW b \in Known(d), Unqueued(d, b)
    PROVE  /\ Good(drop_record(d, b))
           /\ Known(d) \ {b} \subseteq Known(drop_record(d, b))
<1>1. CASE b \in Baselined(d)
  <2> DEFINE none == <<>>
             r == [d.build_info[b] EXCEPT !.test_result = none]
  <2>0. d.build_info[b] \in Record
      BY DEF Good, BuildInfoOK, RecordOK, Known
  <2>1. RecordOK(r)
    <3>1. none \in Seq(Results) /\ Len(none) <= MaxResults
        BY InputsAssumption
    <3> HIDE DEF none
    <3>2. r \in Record /\ r.test_result = none
        BY <2>0, <3>1 DEF Record
    <3>3. QED BY <3>1, <3>2 DEF RecordOK
  <2>2. drop_record(d, b) = [d EXCEPT !.build_info[b] = r]
      BY <1>1 DEF drop_record
  <2> HIDE DEF r
  <2>3. QED BY <2>1, <2>2, SetRecord
<1>2. CASE b \notin Baselined(d)
  <2> DEFINE f == Without(d.build_info, {b})
             e == [d EXCEPT !.build_info = f]
  <2>1. /\ drop_record(d, b) = e
        /\ DOMAIN e = {"priority", "build_info", "baselines"}
        /\ e.priority = d.priority /\ e.baselines = d.baselines
        /\ e.build_info = f /\ Known(e) = DOMAIN f
      BY <1>2 DEF drop_record, Good, Known
  <2>2. DOMAIN f = Known(d) \ {b} /\ BuildInfoOK(f)
      BY DEF Without, Known, Good, BuildInfoOK
  <2> HIDE DEF e, f
  <2>3. PriorityOK(e.priority, Known(e))
      BY <2>1, <2>2 DEF Good, PriorityOK, QueueOK, Unqueued, Members
  <2>4. BaselinesOK(e.baselines, Known(e))
      BY <1>2, <2>1, <2>2 DEF Good, BaselinesOK, Baselined
  <2>5. QED BY <2>1, <2>2, <2>3, <2>4 DEF Good
<1>3. QED BY <1>1, <1>2

LEMMA PurgeBuildGood ==
    ASSUME NEW d, Good(d), NEW w \in Wildcards
    PROVE  Good(purge_build(d, w)) /\ Known(purge_build(d, w)) = Known(d)
<1> DEFINE last(b) == [d.build_info[b] EXCEPT !.test_result =
                IF b \in Matches[w] /\ Len(@) > 1 THEN <<@[Len(@)]>> ELSE @]
           f == [b \in Known(d) |-> last(b)]
           c == [d EXCEPT !.build_info = f]
<1>1. ASSUME NEW b \in Known(d) PROVE RecordOK(last(b))
  <2> DEFINE r == d.build_info[b]
             t == r.test_result
             n == IF b \in Matches[w] /\ Len(t) > 1 THEN <<t[Len(t)]>> ELSE t
  <2>1. r \in Record /\ t \in Seq(Results) /\ Len(t) <= MaxResults
      BY DEF Good, BuildInfoOK, RecordOK, Record, Known
  <2>2. n \in Seq(Results) /\ Len(n) <= MaxResults
      BY <2>1, InputsAssumption
  <2>3. last(b) = [r EXCEPT !.test_result = n]
      OBVIOUS
  <2> HIDE DEF n
  <2>4. QED BY <2>1, <2>2, <2>3 DEF RecordOK, Record
<1>2. purge_build(d, w) = clean_priority(c)
    BY DEF purge_build
<1> HIDE DEF last
<1>3. BuildInfoOK(f) /\ DOMAIN f = Known(d)
    BY <1>1 DEF BuildInfoOK, Good, Known
<1> HIDE DEF f
<1>4. Good(c) /\ Known(c) = Known(d)
    BY <1>3, SetBuildInfo DEF Good, Known
<1>5. QED BY <1>2, <1>4, CleanPriorityGood

(* unqueueing a build touches no record *)
LEMMA PriorityDelKeepsRecords ==
    ASSUME NEW d, Good(d), NEW b
    PROVE  priority_del(d, b, FALSE).build_info = d.build_info
<1>1. dequeue(d, b).build_info = d.build_info
    BY DEF dequeue, Good
<1>2. DOMAIN dequeue(d, b) = DOMAIN d
    BY DEF dequeue
<1>3. clean_priority(dequeue(d, b)).build_info = dequeue(d, b).build_info
    BY <1>2 DEF clean_priority, Good
<1>4. QED BY <1>1, <1>3 DEF priority_del

----------------------------------------------------------------------------
(* The steps *)

LEMMA EmptyDBGood == Good(EmptyDB) /\ Known(EmptyDB) = {}
BY DEF EmptyDB, NoEntries, Good, Known, PriorityOK, BuildInfoOK, BaselinesOK

(* a request that saves: the file is torn until the dump *)
LEMMA RequestKeeps ==
    ASSUME IndInv, NEW d, Good(d), Request(d)
    PROVE  IndInv'
<1>1. /\ db' = d /\ file' = Torn /\ up' = up /\ up
      /\ todo' = {} /\ current' = None
    BY DEF Request, Save, Idle
<1>2. QED BY <1>1 DEF IndInv, Whole

(* a change of memory only, which leaves the set of records alone *)
LEMMA MemoryKeeps ==
    ASSUME IndInv, NEW d, Good(d), Known(d) = Known(db), Idle,
           db' = d, UNCHANGED <<file, up, todo, current>>
    PROVE  IndInv'
BY DEF IndInv, Whole, Idle

(* the end of one round of clean_build *)
LEMMA ContinueKeeps ==
    ASSUME IndInv, NEW b \in todo \cup {current}, b # None, NEW d, Good(d),
           Known(db) \ {b} \subseteq Known(d), up, Continue(b, d),
           current' = None, UNCHANGED up
    PROVE  IndInv'
<1>1. todo' = todo \ {b} /\ todo' \subseteq Known(d)
    BY DEF Continue, IndInv
<1>2. CASE todo' = {}
  <2>1. db' = clean_priority(d) /\ file' = Torn
      BY <1>2 DEF Continue, Save
  <2>2. QED BY <1>2, <2>1, CleanPriorityGood DEF IndInv, Whole
<1>3. CASE todo' # {}
  <2>1. db' = d /\ file' = file
      BY <1>3 DEF Continue
  <2>2. QED BY <1>1, <1>3, <2>1 DEF IndInv, Whole
<1>4. QED BY <1>2, <1>3

LEMMA StepKeepsIndInv == IndInv /\ [Next]_vars => IndInv'
<1> SUFFICES ASSUME IndInv, [Next]_vars PROVE IndInv'
    OBVIOUS
<1>a. /\ Good(db) /\ Known(db) \subseteq Builds
      /\ Whole(file) => Good(file)
    BY DEF IndInv, Good, BuildInfoOK, Known
<1>1. CASE Start
    BY <1>1, EmptyDBGood DEF Start, IndInv, Whole
<1>2. CASE Dump
    BY <1>2 DEF Dump, IndInv
<1>3. CASE Crash
    BY <1>3, EmptyDBGood DEF Crash, IndInv, Whole
<1>4. ASSUME NEW b \in Builds, NEW i \in InfoCalls, BuildInfoAdd(b, i)
      PROVE  IndInv'
    BY <1>a, <1>4, InputsAssumption, BuildInfoAddGood, RequestKeeps DEF BuildInfoAdd
<1>5. ASSUME NEW b \in Builds, NEW i \in InfoCalls, BuildInfoUpdate(b, i)
      PROVE  IndInv'
    BY <1>a, <1>5, InputsAssumption, RecordEditsGood, RequestKeeps
       DEF BuildInfoUpdate, Same
<1>6. ASSUME NEW b \in Builds, PriorityAdd(b) PROVE IndInv'
    BY <1>a, <1>6, PriorityAddGood, RequestKeeps DEF PriorityAdd
<1>7. ASSUME NEW b \in Builds, NEW u \in BOOLEAN, PriorityDel(b, u) PROVE IndInv'
    BY <1>a, <1>7, PriorityDelGood, RequestKeeps DEF PriorityDel
<1>8. ASSUME NEW b \in Builds, PriorityDelUnknown(b) PROVE IndInv'
    BY <1>a, <1>8, PriorityDelGood, MemoryKeeps DEF PriorityDelUnknown
<1>9. ASSUME NEW b \in Builds, PriorityIncrease(b) PROVE IndInv'
    BY <1>a, <1>9, PriorityIncreaseGood, RequestKeeps DEF PriorityIncrease
<1>10. ASSUME NEW b \in Builds, BaselineAdd(b) PROVE IndInv'
    BY <1>a, <1>10, BaselineGood, RequestKeeps DEF BaselineAdd, Same
<1>11. ASSUME NEW r \in Releases, BaselineDel(r) PROVE IndInv'
    BY <1>a, <1>11, BaselineGood, RequestKeeps DEF BaselineDel, Same
<1>12. ASSUME NEW b \in Builds, NEW res \in Results, AddBuildTestResult(b, res)
       PROVE  IndInv'
    BY <1>a, <1>12, RecordEditsGood, RequestKeeps
       DEF AddBuildTestResult, Same
<1>13. ASSUME NEW b \in Builds, NEW s, UpdateBuildStatus(b, s) PROVE IndInv'
    BY <1>a, <1>13, RecordEditsGood, RequestKeeps
       DEF UpdateBuildStatus, Same
<1>14. ASSUME NEW b \in Builds, NEW s, ForceBuildStatus(b, s) PROVE IndInv'
    BY <1>a, <1>14, RecordEditsGood, RequestKeeps
       DEF ForceBuildStatus, Status, Same
<1>15. CASE GetBuild
    BY <1>a, <1>15, ExtractGood, RequestKeeps DEF GetBuild
<1>16. ASSUME NEW b \in Builds, NEW i \in InfoCalls, NEW p \in BOOLEAN,
              UpdateBuildTestInfo(b, i, p)
       PROVE  IndInv'
  <2> DEFINE d == IF b \in Known(db) THEN set_info(db, b, i) ELSE db
  <2>1. Good(d) /\ Known(d) = Known(db)
      BY <1>a, InputsAssumption, RecordEditsGood DEF Same
  <2>2. \/ Request(d)
        \/ Idle /\ db' = d /\ UNCHANGED <<file, up, todo, current>>
      BY <1>16 DEF UpdateBuildTestInfo
  <2> HIDE DEF d
  <2>3. QED BY <2>1, <2>2, RequestKeeps, MemoryKeeps
<1>17. ASSUME NEW w \in Wildcards, PurgeBuild(w) PROVE IndInv'
    BY <1>a, <1>17, PurgeBuildGood, RequestKeeps DEF PurgeBuild
<1>18. CASE RefreshFromFile
    BY <1>a, <1>18 DEF RefreshFromFile, IndInv, Idle
<1>19. ASSUME NEW w \in Wildcards, NEW e, CleanBuild(w, e) PROVE IndInv'
  <2>1. CASE todo' = {}
      BY <1>a, <1>19, <2>1, CleanPriorityGood DEF CleanBuild, Save, Idle, IndInv, Whole
  <2>2. CASE todo' # {}
      BY <1>a, <1>19, <2>2 DEF CleanBuild, Idle, IndInv, Whole
  <2>3. QED BY <2>1, <2>2
<1>20. ASSUME NEW b \in Builds, CleanOngoing(b) PROVE IndInv'
  <2>1. b # None
      BY BuildsAssumption
  <2>2. QED BY <1>a, <1>20, <2>1, ContinueKeeps DEF CleanOngoing, Cleaning
<1>21. ASSUME NEW b \in Builds, CleanDequeue(b) PROVE IndInv'
  <2> DEFINE d == priority_del(db, b, FALSE)
  <2>1. Good(d) /\ Known(d) = Known(db) /\ Unqueued(d, b) /\ d.build_info = db.build_info
      BY <1>a, PriorityDelGood, PriorityDelKeepsRecords
  <2>2. \/ db' = d /\ file' = Torn
        \/ db' = d /\ file' = file
      BY <1>21 DEF CleanDequeue, Save, priority_del
  <2>3. /\ current' = b /\ b # None /\ up' = up /\ todo' = todo /\ up /\ b \in Known(db)
        /\ db.build_info[b].status # "TEST_ONGOING"
      BY <1>21, BuildsAssumption DEF CleanDequeue, Cleaning, IndInv
  <2> HIDE DEF d
  <2>4. QED BY <2>1, <2>2, <2>3 DEF IndInv, Whole
<1>22. CASE CleanRecord
  <2>1. current \in Known(db) /\ current # None /\ Unqueued(db, current) /\ up
      BY <1>22 DEF CleanRecord, IndInv
  <2>2. /\ Good(drop_record(db, current))
        /\ Known(db) \ {current} \subseteq Known(drop_record(db, current))
      BY <1>a, <2>1, DropRecordGood
  <2>3. QED BY <1>22, <2>1, <2>2, ContinueKeeps DEF CleanRecord
<1>23. CASE UNCHANGED vars
    BY <1>23 DEF vars, IndInv, Whole
<1>24. QED
    BY <1>1, <1>2, <1>3, <1>4, <1>5, <1>6, <1>7, <1>8, <1>9, <1>10, <1>11, <1>12,
       <1>13, <1>14, <1>15, <1>16, <1>17, <1>18, <1>19, <1>20, <1>21, <1>22, <1>23
       DEF Next

LEMMA IndInvHolds == Spec => []IndInv
<1>1. Init => IndInv
    BY EmptyDBGood DEF Init, IndInv, Whole
<1>2. QED BY <1>1, StepKeepsIndInv, PTL DEF Spec

----------------------------------------------------------------------------
(* The named invariants follow from the inductive one *)

LEMMA GoodMeans ==
    ASSUME NEW d, Good(d)
    PROVE  /\ DBType(d)
           /\ QueueSoundIn(d)
           /\ Baselined(d) \subseteq Known(d)
           /\ \A b \in Known(d) : Len(d.build_info[b].test_result) <= MaxResults
<1>1. DBType(d)
    BY DEF Good, DBType, PriorityOK, BuildInfoOK, BaselinesOK, RecordOK, Known, Baselined
<1>2. QueueSoundIn(d)
    BY DEF Good, QueueSoundIn, PriorityOK, QueueOK
<1>3. Baselined(d) \subseteq Known(d)
    BY DEF Good, BaselinesOK, Baselined
<1>4. \A b \in Known(d) : Len(d.build_info[b].test_result) <= MaxResults
    BY DEF Good, BuildInfoOK, RecordOK, Known
<1>5. QED BY <1>1, <1>2, <1>3, <1>4

(* Memory and file hold a well formed data base after any sequence of      *)
(* requests, crashes and restarts.                                         *)
THEOREM BuildHandlerTypes == Spec => []TypeOK
<1>1. IndInv => TypeOK
    BY GoodMeans DEF IndInv, TypeOK
<1>2. QED BY <1>1, IndInvHolds, PTL

(* Every build of a pending list, in memory and in a file a restart reads, *)
(* has a record, belongs to the list's project and occurs once: get_build  *)
(* finds the test_info of a pending build whatever was cleaned before.     *)
THEOREM PendingListsSound == Spec => []QueueSound
<1>1. IndInv => QueueSound
    BY GoodMeans DEF IndInv, QueueSound
<1>2. QED BY <1>1, IndInvHolds, PTL

(* No baseline ever names a build without a record, in memory or on disk.  *)
THEOREM BaselinesHaveRecords == Spec => []BaselinesKept
<1>1. IndInv => BaselinesKept
    BY GoodMeans DEF IndInv, BaselinesKept
<1>2. QED BY <1>1, IndInvHolds, PTL

(* While the service runs, no step takes away the record of a build under  *)
(* test or of a baseline: only clean_build drops records, and the file     *)
(* that resume reads back has the same ones.                               *)
THEOREM RunningTestKeepsRecord == Spec => RecordsKept
<1> DEFINE Kept == \A b \in Known(db) :
           up /\ up' /\ b \notin Known(db)' =>
               /\ db.build_info[b].status # "TEST_ONGOING"
               /\ b \notin Baselined(db)
<1>1. IndInv /\ [Next]_vars => [Kept]_vars
  <2> SUFFICES ASSUME IndInv, [Next]_vars, NEW b \in Known(db), up, up',
                      b \notin Known(db)'
               PROVE  /\ db.build_info[b].status # "TEST_ONGOING"
                      /\ b \notin Baselined(db)
      OBVIOUS
  <2>a. Good(db)
      BY DEF IndInv
  <2>b. \A d : Request(d) /\ Known(db) \subseteq Known(d) => FALSE
      BY DEF Request, Save
  <2>c. \A d, x : Continue(x, d) /\ Good(d) => b \notin Known(d)
      BY CleanPriorityGood DEF Continue, Save
  <2>1. CASE Start \/ Dump \/ Crash
      BY <2>1 DEF Start, Dump, Crash
  <2>2. ASSUME NEW c \in Builds, NEW i \in InfoCalls,
               BuildInfoAdd(c, i) \/ BuildInfoUpdate(c, i)
        PROVE  FALSE
      BY <2>a, <2>b, <2>2, InputsAssumption, BuildInfoAddGood, RecordEditsGood
         DEF BuildInfoAdd, BuildInfoUpdate, Same
  <2>3. ASSUME NEW c \in Builds,
               \/ PriorityAdd(c) \/ PriorityIncrease(c) \/ PriorityDelUnknown(c)
               \/ \E u \in BOOLEAN : PriorityDel(c, u)
        PROVE  FALSE
    <3>1. CASE PriorityAdd(c)
        BY <2>a, <2>b, <3>1, PriorityAddGood DEF PriorityAdd
    <3>2. CASE PriorityIncrease(c)
        BY <2>a, <2>b, <3>2, PriorityIncreaseGood DEF PriorityIncrease
    <3>3. CASE PriorityDelUnknown(c)
      <4>1. Known(priority_del(db, c, TRUE)) = Known(db)
          BY <2>a, PriorityDelGood
      <4>2. QED BY <3>3, <4>1 DEF PriorityDelUnknown
    <3>4. ASSUME NEW u \in BOOLEAN, PriorityDel(c, u) PROVE FALSE
      <4>1. Known(priority_del(db, c, u)) = Known(db)
          BY <2>a, PriorityDelGood
      <4>2. QED BY <2>b, <3>4, <4>1 DEF PriorityDel
    <3>5. QED BY <2>3, <3>1, <3>2, <3>3, <3>4
  <2>4. ASSUME \/ \E c \in Builds : BaselineAdd(c)
               \/ \E r \in Releases : BaselineDel(r)
        PROVE  FALSE
      BY <2>a, <2>b, <2>4, BaselineGood DEF BaselineAdd, BaselineDel, Same
  <2>5. ASSUME NEW c \in Builds,
               \/ \E res \in Results : AddBuildTestResult(c, res)
               \/ \E s \in StatusCalls : UpdateBuildStatus(c, s)
               \/ \E s \in StatusCalls : ForceBuildStatus(c, s)
        PROVE  FALSE
    <3>1. ASSUME NEW res \in Results, AddBuildTestResult(c, res) PROVE FALSE
      <4>1. c \in Known(db) /\ Request(add_build_test_result(db, c, res))
            /\ Len(db.build_info[c].test_result) < MaxResults
          BY <3>1 DEF AddBuildTestResult
      <4>2. Known(add_build_test_result(db, c, res)) = Known(db)
          BY <2>a, <4>1, RecordEditsGood DEF Same
      <4>3. QED BY <2>b, <4>1, <4>2
    <3>2. ASSUME NEW s \in Status, c \in Known(db),
                 Request(set_status(db, c, s))
          PROVE  FALSE
      <4>1. Known(set_status(db, c, s)) = Known(db)
          BY <2>a, <3>2, RecordEditsGood DEF Same
      <4>2. QED BY <2>b, <3>2, <4>1
    <3>3. QED
        BY <2>5, <3>1, <3>2 DEF UpdateBuildStatus, ForceBuildStatus, Status
  <2>6. ASSUME NEW c \in Builds, NEW i \in InfoCalls, NEW p \in BOOLEAN,
               UpdateBuildTestInfo(c, i, p)
        PROVE  FALSE
      BY <2>a, <2>b, <2>6, InputsAssumption, RecordEditsGood
         DEF UpdateBuildTestInfo, Same
  <2>7. ASSUME GetBuild \/ \E w \in Wildcards : PurgeBuild(w)
        PROVE  FALSE
      BY <2>a, <2>b, <2>7, ExtractGood, PurgeBuildGood DEF GetBuild, PurgeBuild
  <2>8. CASE RefreshFromFile
      BY <2>8 DEF RefreshFromFile, Idle, IndInv
  <2>9. ASSUME NEW w \in Wildcards, NEW e, CleanBuild(w, e)
        PROVE  FALSE
      BY <2>a, <2>9, CleanPriorityGood DEF CleanBuild, Save
  <2>10. ASSUME NEW c \in Builds, CleanOngoing(c) PROVE FALSE
      BY <2>a, <2>c, <2>10 DEF CleanOngoing
  <2>11. ASSUME NEW c \in Builds, CleanDequeue(c) PROVE FALSE
      BY <2>a, <2>11, PriorityDelGood DEF CleanDequeue, Save
  <2>12. CASE CleanRecord
    <3>1. current \in Known(db) /\ Unqueued(db, current)
        BY <2>12 DEF CleanRecord, IndInv
    <3>2. b \notin Known(drop_record(db, current))
        BY <2>a, <2>c, <2>12, <3>1, DropRecordGood DEF CleanRecord
    <3>3. b = current
        BY <2>a, <3>1, <3>2, DropRecordGood
    <3>4. b \notin Baselined(db)
        BY <2>a, <3>2, <3>3 DEF drop_record, Known, Good
    <3>5. QED BY <2>12, <3>3, <3>4 DEF CleanRecord, IndInv
  <2>13. CASE UNCHANGED vars
      BY <2>13 DEF vars
  <2>14. QED
      BY <2>1, <2>2, <2>3, <2>4, <2>5, <2>6, <2>7, <2>8, <2>9, <2>10, <2>11,
         <2>12, <2>13 DEF Next
<1>2. QED BY <1>1, IndInvHolds, PTL DEF Spec, RecordsKept

----------------------------------------------------------------------------
(* What memory and file agree on at rest *)

Agree(f, d) ==
    /\ Known(f) = Known(d)
    /\ \A b \in Known(d) :
           /\ f.build_info[b].status = d.build_info[b].status
           /\ f.build_info[b].test_result = d.build_info[b].test_result
    /\ f.baselines = d.baselines
    /\ Waiting(f) = Waiting(d)
    /\ \A p \in Waiting(d) : f.priority[p].pending = d.priority[p].pending
    /\ \A p \in DOMAIN d.priority :
           d.priority[p].high_priority \in Known(d) =>
               /\ p \in DOMAIN f.priority
               /\ f.priority[p].high_priority = d.priority[p].high_priority

LEMMA SavedMeans == SavedAtRest <=> (Idle /\ Whole(file) => Agree(file, db))
BY DEF SavedAtRest, Agree

LEMMA AgreeWithItself == \A d : Agree(d, d)
BY DEF Agree

(* a change of test_info alone is not seen *)
LEMMA InfoKeepsAgree ==
    ASSUME NEW f, NEW b \in Known(db), NEW info, Good(db), Agree(f, db)
    PROVE  Agree(f, set_info(db, b, info))
<1> DEFINE d == set_info(db, b, info)
           r == [db.build_info[b] EXCEPT !.test_info = info]
<1>1. /\ d.priority = db.priority /\ d.baselines = db.baselines
      /\ d.build_info = [db.build_info EXCEPT ![b] = r]
    BY DEF set_info, Good
<1>2. r.status = db.build_info[b].status
      /\ r.test_result = db.build_info[b].test_result
    BY DEF Good, BuildInfoOK, RecordOK, Record, Known
<1> HIDE DEF d, r
<1>3. Known(d) = Known(db) /\ Waiting(d) = Waiting(db)
    BY <1>1 DEF Known, Waiting
<1>4. \A c \in Known(db) :
          /\ d.build_info[c].status = db.build_info[c].status
          /\ d.build_info[c].test_result = db.build_info[c].test_result
    BY <1>1, <1>2 DEF Known
<1>5. Agree(f, d)
    BY <1>1, <1>3, <1>4 DEF Agree
<1>6. QED BY <1>5 DEF d

(* a build without record is in no pending list: what priority_del takes   *)
(* out and does not save is a high priority build nobody can test          *)
LEMMA UnknownKeepsAgree ==
    ASSUME NEW f, NEW b \in Builds, b \notin Known(db), Good(db), Agree(f, db),
           ProjectOf[b] \in DOMAIN db.priority
    PROVE  Agree(f, priority_del(db, b, TRUE))
<1> DEFINE p == ProjectOf[b]
           e == db.priority[p]
           h == IF e.high_priority = b THEN None ELSE e.high_priority
           n == [e EXCEPT !.high_priority = h]
           d == [db EXCEPT !.priority[p] = n]
<1>1. e \in Entry /\ b \notin Members(e.pending)
    BY DEF Good, PriorityOK, QueueOK, Members
<1>2. priority_del(db, b, TRUE) = d
    BY <1>1 DEF priority_del, dequeue
<1>3. n.pending = e.pending /\ n.high_priority = h
    BY <1>1 DEF Entry
<1>4. None \notin Known(db)
    BY BuildsAssumption DEF Good, BuildInfoOK, Known
<1>5. h \in Known(db) => h = e.high_priority
    BY <1>4
<1> HIDE DEF h, n
<1>6. /\ d.build_info = db.build_info /\ d.baselines = db.baselines
      /\ d.priority = [db.priority EXCEPT ![p] = n]
    BY DEF Good
<1> HIDE DEF d
<1>7. DOMAIN d.priority = DOMAIN db.priority /\ Known(d) = Known(db)
    BY <1>6 DEF Known
<1>8. \A x \in DOMAIN db.priority :
          /\ d.priority[x].pending = db.priority[x].pending
          /\ d.priority[x].high_priority \in Known(db) =>
                 d.priority[x].high_priority = db.priority[x].high_priority
    BY <1>3, <1>5, <1>6
<1>9. Waiting(d) = Waiting(db) /\ Waiting(db) \subseteq DOMAIN db.priority
    BY <1>7, <1>8 DEF Waiting
<1>10. QED BY <1>2, <1>6, <1>7, <1>8, <1>9 DEF Agree

LEMMA StepKeepsSaved == IndInv /\ SavedAtRest /\ [Next]_vars => SavedAtRest'
<1> SUFFICES ASSUME IndInv, SavedAtRest, [Next]_vars, Idle', Whole(file)'
             PROVE  Agree(file, db)'
    BY SavedMeans, PTL
<1>1. Good(db)
    BY DEF IndInv
<1>2. Idle /\ Whole(file) => Agree(file, db)
    BY SavedMeans
<1>3. \A d : ~Save(d) /\ ~Request(d)
    BY DEF Save, Request, Whole
<1>4. CASE Start
  <2>1. file' = file /\ db' = file
      BY <1>4 DEF Start, Whole
  <2>2. QED BY <2>1, AgreeWithItself
<1>5. CASE Dump
    BY <1>5, AgreeWithItself DEF Dump
<1>6. CASE Crash
    BY <1>6 DEF Crash, Idle
<1>7. CASE RefreshFromFile
    BY <1>7, AgreeWithItself DEF RefreshFromFile
<1>8. ASSUME NEW b \in Builds, PriorityDelUnknown(b) PROVE Agree(file, db)'
    BY <1>1, <1>2, <1>8, UnknownKeepsAgree DEF PriorityDelUnknown, Whole
<1>9. ASSUME NEW b \in Builds, NEW i \in InfoCalls, NEW p \in BOOLEAN,
             UpdateBuildTestInfo(b, i, p)
      PROVE  Agree(file, db)'
  <2>1. /\ Idle /\ file' = file
        /\ db' = IF b \in Known(db) THEN set_info(db, b, i) ELSE db
      BY <1>3, <1>9 DEF UpdateBuildTestInfo
  <2>2. QED BY <1>1, <1>2, <2>1, InfoKeepsAgree DEF Whole
<1>10. ASSUME NEW w \in Wildcards, NEW e, CleanBuild(w, e) PROVE FALSE
    BY <1>3, <1>10 DEF CleanBuild, Idle
<1>11. ASSUME NEW b \in Builds, CleanOngoing(b) \/ CleanDequeue(b) PROVE FALSE
    BY <1>3, <1>11, BuildsAssumption
       DEF CleanOngoing, CleanDequeue, Continue, Idle
<1>12. CASE UNCHANGED vars
    BY <1>2, <1>12 DEF vars, Idle, Whole
<1>13. CASE GetBuild
    BY <1>3, <1>13 DEF GetBuild
<1>14. CASE CleanRecord
    BY <1>3, <1>14 DEF CleanRecord, Continue, Idle
<1>15. QED
    BY <1>3, <1>4, <1>5, <1>6, <1>7, <1>8, <1>9, <1>10, <1>11, <1>12, <1>13,
       <1>14 DEF Next, BuildInfoAdd, BuildInfoUpdate, PriorityAdd, PriorityDel,
           PriorityIncrease, BaselineAdd, BaselineDel, AddBuildTestResult,
           UpdateBuildStatus, ForceBuildStatus, PurgeBuild

(* What a request answered is on disk as soon as the next one can come,    *)
(* apart from test_info and from promoted builds without a record.         *)
THEOREM AnsweredIsSaved == Spec => []SavedAtRest
<1>1. Init => SavedAtRest
    BY DEF Init, SavedAtRest, Idle
<1>2. QED BY <1>1, IndInvHolds, StepKeepsSaved, PTL DEF Spec

(***************************************************************************)
(* The service around the build handler.                                   *)
(***************************************************************************)

(* What the controller's reasoning needs of the data base: it has its      *)
(* dictionaries, and every build in it has a record with a status.         *)
RecordsThere(d) ==
    /\ DOMAIN d = {"priority", "build_info", "baselines"}
    /\ Known(d) \subseteq Builds
    /\ \A b \in Known(d) :
           DOMAIN d.build_info[b] = {"test_info", "test_result", "status"}

Ongoing(d, b) == b \in Known(d) /\ d.build_info[b].status = "TEST_ONGOING"

(* A run: before its tool is launched nothing is known of it; a test that  *)
(* was seen to start and is not ongoing is over, or its channel broke.     *)
RunOK(run) ==
    /\ run \in Run
    /\ run.thread = "launch" => run.tool = "off" /\ ~run.started /\ ~run.error
    /\ run.started /\ ~run.ongoing => run.tool = "gone" \/ run.error

(* A forced build has a name; Announces says that the end of a test of     *)
(* build b is still to be handled.                                         *)
BusOK(q) ==
    /\ q \in Seq(Signals)
    /\ \A i \in DOMAIN q :
           /\ q[i].name = "force_build" => q[i].build \in Builds
           /\ q[i].name = "test_tool_shutdown" => q[i].flag = FALSE

Announces(q, b) ==
    \E i \in DOMAIN q : q[i] = Sig("test_tool_shutdown", b, FALSE)

(* the threads of the gateway and the answer they keep for a signal *)
GatewayOK ==
    /\ DOMAIN gw = Builds
    /\ \A b \in Builds : DOMAIN gw[b] = Triggers
    /\ \A b \in Builds, t \in Triggers :
           /\ DOMAIN gw[b][t] = {"at", "was_pending", "dropped"}
           /\ gw[b][t].was_pending \in BOOLEAN

ServiceTypes ==
    /\ env \in Scenario
    /\ BusOK(bus)
    /\ ctl \in Controller
    /\ ctl.pc = "prepare" => ctl.build \in Builds
    /\ ctl.handler \in 0 .. Len(runs)
    /\ runs \in Seq(Run)
    /\ \A r \in DOMAIN runs : RunOK(runs[r])
    /\ RecordsThere(db)
    /\ GatewayOK

(* The controller waits for the run it has just started, and no other run  *)
(* is about to launch its tool.                                            *)
OneLaunch ==
    /\ ctl.pc = "wait" =>
           ctl.handler # 0 /\ ctl.build = runs[ctl.handler].build
    /\ ctl.pc \in {"idle", "get_build"} /\ ctl.handler # 0 =>
           runs[ctl.handler].started
    /\ \A r \in DOMAIN runs :
           runs[r].thread = "launch" => ctl.pc = "wait" /\ ctl.handler = r

Busy(r) == (Alive(r) /\ ~runs[r].error) \/ runs[r].thread = "launch"

(* A tool at work whose channel is whole is the one the controller knows,  *)
(* nothing on the bus says it is over, and nothing ever will before its    *)
(* own signal: no tool whose channel broke is at work on the same build.   *)
OneTool ==
    (\A r \in DOMAIN runs : ~runs[r].late) =>
        \A q \in DOMAIN runs :
            Busy(q) =>
                /\ ctl.handler = q /\ ctl.build = runs[q].build
                /\ ctl.pc \in {"idle", "wait"}
                /\ ~Announces(bus, runs[q].build)
                /\ \A z \in DOMAIN runs :
                       Alive(z) /\ runs[z].build = runs[q].build => z = q

(* While no failure is possible: a test counts as not started only when    *)
(* its tool is gone; the end of the test the controller has under way is   *)
(* announced, and so is the end of any other test in TEST_ONGOING.         *)
EndAnnounced ==
    env.failures = {} =>
        /\ \A r \in DOMAIN runs : runs[r].error => runs[r].tool = "gone"
        /\ /\ ctl.pc \in {"idle", "get_build", "wait"}
           /\ ctl.handler # 0 /\ ctl.build = runs[ctl.handler].build
           /\ ctl.pc = "get_build" \/ runs[ctl.handler].tool = "gone"
           => Announces(bus, ctl.build)
        /\ \A b \in Builds : Ongoing(db, b) =>
               \/ Announces(bus, b)
               \/ /\ ctl.pc = "idle" /\ ctl.handler # 0
                  /\ ctl.build = b /\ runs[ctl.handler].build = b

ServiceInv == ServiceTypes /\ OneLaunch /\ OneTool /\ EndAnnounced

----------------------------------------------------------------------------
(* A request that leaves the records alone. *)
SameInfo(d, e) == DOMAIN e = DOMAIN d /\ e.build_info = d.build_info

(* No request but set_status puts a build under test. *)
NoNewTest(d, e) == RecordsThere(e) /\ \A b \in Builds : Ongoing(e, b) => Ongoing(d, b)

LEMMA SameRecords ==
    ASSUME NEW d, RecordsThere(d), NEW e, SameInfo(d, e)
    PROVE  NoNewTest(d, e) /\ Known(e) = Known(d)
BY DEF SameInfo, NoNewTest, RecordsThere, Ongoing, Known

LEMMA CleanPriorityRecords ==
    ASSUME NEW d, RecordsThere(d)
    PROVE  SameInfo(d, clean_priority(d))
BY DEF SameInfo, clean_priority, RecordsThere

LEMMA ExtractRequest ==
    ASSUME NEW d, RecordsThere(d)
    PROVE  SameInfo(d, extract(d))
BY DEF SameInfo, RecordsThere, extract

LEMMA QueueRequests ==
    ASSUME NEW d, RecordsThere(d), NEW b \in Builds
    PROVE  /\ SameInfo(d, priority_add(d, b))
           /\ SameInfo(d, priority_increase(d, b))
           /\ SameInfo(d, baseline_add(d, b))
           /\ SameInfo(d, dequeue(d, b))
<1>1. ASSUME NEW e, SameInfo(d, e) PROVE SameInfo(d, clean_priority(e))
  <2>1. RecordsThere(e)
      BY <1>1 DEF SameInfo, RecordsThere, Known
  <2>2. QED BY <1>1, <2>1, CleanPriorityRecords DEF SameInfo
<1>2. SameInfo(d, priority_add(d, b))
  <2> DEFINE p == ProjectOf[b]
             q == IF p \in DOMAIN d.priority THEN d.priority[p]
                  ELSE [pending |-> <<>>, high_priority |-> None]
             v == [q EXCEPT !.pending =
                      IF b \in Members(@) THEN @ ELSE Append(@, b)]
             e == [d EXCEPT !.priority = Put(@, p, v)]
  <2>1. priority_add(d, b) = clean_priority(e)
      BY DEF priority_add
  <2> HIDE DEF v
  <2>2. SameInfo(d, e)
      BY DEF SameInfo, RecordsThere
  <2> HIDE DEF e
  <2>3. QED BY <1>1, <2>1, <2>2
<1>3. SameInfo(d, priority_increase(d, b))
  <2> DEFINE p == ProjectOf[b]
             e == [d EXCEPT !.priority[p].pending = After(@, b),
                            !.priority[p].high_priority = b]
  <2>1. \/ priority_increase(d, b) = clean_priority(e)
        \/ priority_increase(d, b) = clean_priority(d)
      BY DEF priority_increase
  <2>2. SameInfo(d, e) /\ SameInfo(d, d)
      BY DEF SameInfo, RecordsThere
  <2> HIDE DEF e
  <2>3. SameInfo(d, clean_priority(e)) /\ SameInfo(d, clean_priority(d))
      BY <1>1, <2>2
  <2>4. QED BY <2>1, <2>3
<1>4. SameInfo(d, baseline_add(d, b))
    BY DEF SameInfo, RecordsThere, baseline_add
<1>5. SameInfo(d, dequeue(d, b))
    BY DEF SameInfo, RecordsThere, dequeue
<1>6. QED BY <1>2, <1>3, <1>4, <1>5

(* a change of one record, whose new status s is s *)
LEMMA RecordChanged ==
    ASSUME NEW d, RecordsThere(d), NEW b \in Known(d), NEW v, NEW e,
           e = [d EXCEPT !.build_info[b] = v],
           DOMAIN v = {"test_info", "test_result", "status"}
    PROVE  /\ RecordsThere(e)
           /\ \A c \in Builds : c # b /\ Ongoing(e, c) => Ongoing(d, c)
           /\ Ongoing(e, b) => v.status = "TEST_ONGOING"
<1>1. /\ DOMAIN e = DOMAIN d
      /\ e.build_info = [d.build_info EXCEPT ![b] = v]
    BY DEF RecordsThere
<1>2. /\ Known(e) = Known(d) /\ e.build_info[b] = v
      /\ \A c \in Known(d) : c # b => e.build_info[c] = d.build_info[c]
    BY <1>1 DEF Known
<1>3. QED BY <1>1, <1>2 DEF RecordsThere, Ongoing

LEMMA RecordRequests ==
    ASSUME NEW d, RecordsThere(d), NEW b \in Known(d)
    PROVE  /\ \A i : NoNewTest(d, build_info_update(d, b, i))
           /\ \A x : /\ NoNewTest(d, add_build_test_result(d, b, x))
                     /\ ~Ongoing(add_build_test_result(d, b, x), b)
           /\ NoNewTest(d, skip(d, b)) /\ Known(skip(d, b)) = Known(d)
           /\ \A s : /\ RecordsThere(set_status(d, b, s))
                     /\ \A c \in Builds : c # b /\ Ongoing(set_status(d, b, s), c)
                                           => Ongoing(d, c)
           /\ \A s : s # "TEST_ONGOING" => NoNewTest(d, set_status(d, b, s))
<1> DEFINE r == d.build_info[b]
<1>1. DOMAIN r = {"test_info", "test_result", "status"} /\ b \in Builds
    BY DEF RecordsThere
<1>2. ASSUME NEW v, DOMAIN v = DOMAIN r
      PROVE  /\ RecordsThere([d EXCEPT !.build_info[b] = v])
             /\ \A c \in Builds : c # b /\ Ongoing([d EXCEPT !.build_info[b] = v], c)
                                   => Ongoing(d, c)
             /\ Ongoing([d EXCEPT !.build_info[b] = v], b) => v.status = "TEST_ONGOING"
    BY <1>1, <1>2, RecordChanged
<1>3. ASSUME NEW v, DOMAIN v = DOMAIN r,
             v.status = "TEST_ONGOING" => r.status = "TEST_ONGOING"
      PROVE  NoNewTest(d, [d EXCEPT !.build_info[b] = v])
  <2> DEFINE e == [d EXCEPT !.build_info[b] = v]
  <2>1. /\ RecordsThere(e)
        /\ \A c \in Builds : c # b /\ Ongoing(e, c) => Ongoing(d, c)
        /\ Ongoing(e, b) => v.status = "TEST_ONGOING"
      BY <1>2, <1>3
  <2>2. v.status = "TEST_ONGOING" => Ongoing(d, b)
      BY <1>3 DEF Ongoing
  <2> HIDE DEF e
  <2>3. NoNewTest(d, e)
      BY <1>1, <2>1, <2>2 DEF NoNewTest
  <2>4. QED BY <2>3 DEF e
<1>4. ASSUME NEW i PROVE NoNewTest(d, build_info_update(d, b, i))
  <2> DEFINE v == [r EXCEPT !.test_info =
                      [k \in InfoKeys |-> IF i[k] = None THEN @[k] ELSE i[k]]]
  <2>1. DOMAIN v = DOMAIN r /\ v.status = r.status
      BY <1>1
  <2>2. build_info_update(d, b, i) = [d EXCEPT !.build_info[b] = v]
      BY DEF build_info_update
  <2> HIDE DEF v
  <2>3. QED BY <1>3, <2>1, <2>2
<1>5. ASSUME NEW x
      PROVE  /\ NoNewTest(d, add_build_test_result(d, b, x))
             /\ ~Ongoing(add_build_test_result(d, b, x), b)
  <2> DEFINE s == IF r.status = "TEST_ONGOING" THEN "TESTED" ELSE r.status
             v == [r EXCEPT !.status = s, !.test_result = Append(@, x)]
             e == [d EXCEPT !.build_info[b] = v]
  <2>1. DOMAIN v = DOMAIN r /\ v.status # "TEST_ONGOING"
      BY <1>1
  <2>2. add_build_test_result(d, b, x) = e
      BY <1>1 DEF add_build_test_result, RecordsThere, Known
  <2> HIDE DEF v
  <2>3. NoNewTest(d, e) /\ ~Ongoing(e, b)
      BY <1>2, <1>3, <2>1
  <2>4. QED BY <2>2, <2>3
<1>6. NoNewTest(d, skip(d, b)) /\ Known(skip(d, b)) = Known(d)
  <2> DEFINE v == [r EXCEPT !.status = IF @ = "NOT_TESTED" THEN "SKIPPED" ELSE @]
  <2>1. /\ DOMAIN v = DOMAIN r
        /\ v.status = "TEST_ONGOING" => r.status = "TEST_ONGOING"
      BY <1>1
  <2>2. skip(d, b) = [d EXCEPT !.build_info[b] = v]
      BY DEF skip
  <2> HIDE DEF v
  <2>3. Known([d EXCEPT !.build_info[b] = v]) = Known(d)
      BY DEF RecordsThere, Known
  <2>4. QED BY <1>3, <2>1, <2>2, <2>3
<1>7. ASSUME NEW s
      PROVE  /\ RecordsThere(set_status(d, b, s))
             /\ \A c \in Builds : c # b /\ Ongoing(set_status(d, b, s), c)
                                   => Ongoing(d, c)
             /\ s # "TEST_ONGOING" => NoNewTest(d, set_status(d, b, s))
  <2> DEFINE v == [r EXCEPT !.status = s]
             e == [d EXCEPT !.build_info[b] = v]
  <2>1. DOMAIN v = DOMAIN r /\ v.status = s
      BY <1>1
  <2>2. set_status(d, b, s) = e
      BY DEF set_status
  <2> HIDE DEF v
  <2>3. /\ RecordsThere(e)
        /\ \A c \in Builds : c # b /\ Ongoing(e, c) => Ongoing(d, c)
        /\ s # "TEST_ONGOING" => NoNewTest(d, e)
      BY <1>2, <1>3, <2>1
  <2>4. QED BY <2>2, <2>3
<1>8. QED BY <1>4, <1>5, <1>6, <1>7

LEMMA PriorityDelRequest ==
    ASSUME NEW d, RecordsThere(d), NEW b \in Builds, NEW u \in BOOLEAN
    PROVE  /\ NoNewTest(d, priority_del(d, b, u))
           /\ Known(priority_del(d, b, u)) = Known(d)
<1> DEFINE e == dequeue(d, b)
           f == skip(e, b)
           Fine(g) == NoNewTest(d, g) /\ Known(g) = Known(d)
<1>1. Fine(d) /\ Fine(e)
    BY QueueRequests, SameRecords DEF SameInfo
<1> HIDE DEF e
<1>2. b \in Known(d) => NoNewTest(e, f) /\ Known(f) = Known(e)
    BY <1>1, RecordRequests DEF NoNewTest
<1> HIDE DEF f
<1>3. b \in Known(d) => Fine(f)
    BY <1>1, <1>2 DEF NoNewTest
<1>4. ASSUME NEW g, Fine(g) PROVE Fine(clean_priority(g))
  <2>1. /\ NoNewTest(g, clean_priority(g))
        /\ Known(clean_priority(g)) = Known(g)
      BY <1>4, CleanPriorityRecords, SameRecords DEF NoNewTest
  <2>2. QED BY <1>4, <2>1 DEF NoNewTest
<1>5. \/ priority_del(d, b, u) \in {d, e, clean_priority(e)}
      \/ b \in Known(d) /\ priority_del(d, b, u) = clean_priority(f)
    BY DEF priority_del, e, f
<1>6. QED BY <1>1, <1>3, <1>4, <1>5

LEMMA BuildInfoAddRequest ==
    ASSUME NEW d, RecordsThere(d), NEW b \in Builds, NEW i
    PROVE  NoNewTest(d, build_info_add(d, b, i))
<1> DEFINE v == [test_info |-> i, test_result |-> <<>>, status |-> "NOT_TESTED"]
           e == build_info_add(d, b, i)
<1>1. DOMAIN v = {"test_info", "test_result", "status"} /\ v.status = "NOT_TESTED"
    OBVIOUS
<1> HIDE DEF v
<1>2. DOMAIN e = DOMAIN d /\ e.build_info = Put(d.build_info, b, v)
    BY DEF v, build_info_add, RecordsThere
<1> HIDE DEF e
<1>3. /\ Known(e) = Known(d) \cup {b} /\ e.build_info[b] = v
      /\ \A c \in Known(d) : c # b => e.build_info[c] = d.build_info[c]
    BY <1>2 DEF Put, Known
<1>4. NoNewTest(d, e)
    BY <1>1, <1>2, <1>3 DEF NoNewTest, RecordsThere, Ongoing
<1>5. QED BY <1>4 DEF e

LEMMA CleanBuildRequest ==
    ASSUME NEW d, RecordsThere(d), NEW T
    PROVE  /\ NoNewTest(d, clean_build(d, T))
           /\ \A b \in Known(d) : b \notin T => b \in Known(clean_build(d, T))
<1> DEFINE U == {b \in T \cap Known(d) : d.build_info[b].status # "TEST_ONGOING"}
           left(e) ==
               [pending |-> Remaining(e.pending, U),
                high_priority |-> IF e.high_priority \in U \ Members(e.pending)
                                  THEN None ELSE e.high_priority]
           rec(b) == IF b \in U THEN [d.build_info[b] EXCEPT !.test_result = <<>>]
                                ELSE d.build_info[b]
           n == [b \in Known(d) \ (U \ Baselined(d)) |-> rec(b)]
           g == [d EXCEPT !.priority = [p \in DOMAIN @ |-> left(@[p])],
                          !.build_info = n]
<1>1. clean_build(d, T) = clean_priority(g)
    BY DEF clean_build
<1>2. DOMAIN g = DOMAIN d /\ g.build_info = n
    BY DEF RecordsThere
<1>3. \A b \in Known(d) : /\ DOMAIN rec(b) = DOMAIN d.build_info[b]
                            /\ rec(b).status = d.build_info[b].status
    BY DEF RecordsThere
<1> HIDE DEF rec, U, g
<1>4. /\ Known(g) \subseteq Known(d)
      /\ \A b \in Known(g) : g.build_info[b] = rec(b)
    BY <1>2 DEF Known
<1>5. NoNewTest(d, g)
    BY <1>2, <1>3, <1>4 DEF NoNewTest, RecordsThere, Ongoing
<1>6. NoNewTest(g, clean_priority(g)) /\ Known(clean_priority(g)) = Known(g)
    BY <1>5, CleanPriorityRecords, SameRecords DEF NoNewTest
<1>7. \A b \in Known(d) : b \notin T => b \in Known(g)
  <2>1. U \subseteq T
      BY DEF U
  <2>2. QED BY <1>2, <2>1 DEF Known
<1>8. QED BY <1>1, <1>5, <1>6, <1>7 DEF NoNewTest

(* the requests of a message's actions *)
LEMMA ActionsStartNoTest ==
    ASSUME RecordsThere(db), NEW a, NEW b \in Builds, ~Raises(a, b)
    PROVE  NoNewTest(db, AfterAction(a, b))
<1> DEFINE e == AfterAction(a, b)
<1>1. CASE a = "build_info_add"
  <2>1. e = build_info_add(db, b, TheInfo)
      BY <1>1 DEF AfterAction
  <2> HIDE DEF e
  <2>2. NoNewTest(db, e)
      BY <2>1, BuildInfoAddRequest
  <2>3. QED BY <2>2 DEF e
<1>2. CASE a = "build_info_update"
  <2>1. e = build_info_update(db, b, TheInfo) /\ b \in Known(db)
      BY <1>2 DEF AfterAction, Raises
  <2> HIDE DEF e
  <2>2. NoNewTest(db, e)
      BY <2>1, RecordRequests
  <2>3. QED BY <2>2 DEF e
<1>3. CASE a = "priority_add"
    BY <1>3, QueueRequests, SameRecords DEF AfterAction
<1>4. CASE a = "priority_del"
    BY <1>4, PriorityDelRequest DEF AfterAction
<1>5. CASE a = "priority_increase"
    BY <1>5, QueueRequests, SameRecords DEF AfterAction
<1>6. CASE a = "baseline_add"
    BY <1>6, QueueRequests, SameRecords DEF AfterAction
<1>7. CASE a = "release_info_purge"
    BY <1>7, CleanBuildRequest DEF AfterAction
<1>8. CASE a = "project_info_purge"
    BY <1>8, CleanBuildRequest DEF AfterAction
<1>9. CASE a \notin {"build_info_add", "build_info_update", "priority_add",
                     "priority_del", "priority_increase", "baseline_add",
                     "release_info_purge", "project_info_purge"}
  <2>1. e = db
      BY <1>9 DEF AfterAction
  <2>2. NoNewTest(db, db)
      BY SameRecords DEF SameInfo
  <2>3. QED BY <2>1, <2>2
<1>10. QED BY <1>1, <1>2, <1>3, <1>4, <1>5, <1>6, <1>7, <1>8, <1>9

----------------------------------------------------------------------------
(* The bus *)

LEMMA SignalTaken ==
    ASSUME NEW q, BusOK(q), q # <<>>
    PROVE  /\ Head(q) \in Signals
           /\ Head(q).name = "force_build" => Head(q).build \in Builds
           /\ Head(q).name = "test_tool_shutdown" => Head(q).flag = FALSE
           /\ BusOK(Tail(q))
           /\ \A b : Announces(q, b) <=>
                  \/ Announces(Tail(q), b)
                  \/ Head(q) = Sig("test_tool_shutdown", b, FALSE)
<1> DEFINE t == Tail(q)
<1>1. /\ q \in Seq(Signals) /\ Len(q) \in Nat /\ Len(q) > 0
      /\ DOMAIN q = 1 .. Len(q) /\ Head(q) = q[1]
    BY DEF BusOK
<1>2. /\ t \in Seq(Signals) /\ DOMAIN t = 1 .. (Len(q) - 1)
      /\ \A i \in 1 .. (Len(q) - 1) : t[i] = q[i + 1]
    BY <1>1
<1>3. Head(q) \in Signals
      /\ (Head(q).name = "force_build" => Head(q).build \in Builds)
      /\ (Head(q).name = "test_tool_shutdown" => Head(q).flag = FALSE)
    BY <1>1 DEF BusOK
<1> HIDE DEF t
<1>4. \A i \in DOMAIN t : i + 1 \in DOMAIN q /\ t[i] = q[i + 1]
    BY <1>1, <1>2
<1>5. BusOK(t)
    BY <1>2, <1>4 DEF BusOK
<1>6. \A i \in DOMAIN q : i = 1 \/ (i - 1 \in DOMAIN t /\ t[i - 1] = q[i])
    BY <1>1, <1>2
<1>7. \A b : Announces(q, b) <=>
                 \/ Announces(t, b)
                 \/ Head(q) = Sig("test_tool_shutdown", b, FALSE)
  <2> TAKE b
  <2> DEFINE s == Sig("test_tool_shutdown", b, FALSE)
  <2> HIDE DEF s
  <2>1. 1 \in DOMAIN q /\ Head(q) = q[1]
      BY <1>1
  <2>2. (\E i \in DOMAIN q : q[i] = s) <=> (\E i \in DOMAIN t : t[i] = s) \/ Head(q) = s
      BY <1>4, <1>6, <2>1
  <2>3. QED BY <2>2 DEF Announces, s
<1>8. QED BY <1>3, <1>5, <1>7 DEF t

LEMMA SignalSent ==
    ASSUME NEW q, BusOK(q), NEW s \in Signals,
           s.name = "force_build" => s.build \in Builds,
           s.name = "test_tool_shutdown" => s.flag = FALSE
    PROVE  /\ BusOK(Append(q, s))
           /\ \A b : Announces(Append(q, s), b) <=>
                  \/ Announces(q, b)
                  \/ s = Sig("test_tool_shutdown", b, FALSE)
<1> DEFINE t == Append(q, s)
           n == Len(q) + 1
<1>1. /\ q \in Seq(Signals) /\ Len(q) \in Nat /\ DOMAIN q = 1 .. Len(q)
      /\ t \in Seq(Signals) /\ DOMAIN t = 1 .. (Len(q) + 1)
      /\ t[Len(q) + 1] = s
      /\ \A i \in 1 .. Len(q) : t[i] = q[i]
    BY DEF BusOK
<1> HIDE DEF t
<1>2. /\ n \in DOMAIN t /\ t[n] = s
      /\ \A i \in DOMAIN q : i \in DOMAIN t /\ t[i] = q[i]
      /\ \A i \in DOMAIN t : i \in DOMAIN q \/ i = n
    BY <1>1
<1> HIDE DEF n
<1>3. BusOK(t)
    BY <1>1, <1>2 DEF BusOK
<1>4. \A b : Announces(t, b) <=>
                 \/ Announces(q, b)
                 \/ s = Sig("test_tool_shutdown", b, FALSE)
  <2> TAKE b
  <2> DEFINE x == Sig("test_tool_shutdown", b, FALSE)
  <2> HIDE DEF x
  <2>1. (\E i \in DOMAIN t : t[i] = x) <=> (\E i \in DOMAIN q : q[i] = x) \/ s = x
      BY <1>2
  <2>2. QED BY <2>1 DEF Announces, x
<1>5. QED BY <1>3, <1>4 DEF t

(* every signal but test_tool_shutdown announces nothing *)
LEMMA OtherSignals ==
    ASSUME NEW s, s.name # "test_tool_shutdown", NEW b
    PROVE  s # Sig("test_tool_shutdown", b, FALSE)
BY DEF Sig

LEMMA SigType ==
    ASSUME NEW n \in {"check_priority_list", "set_test_to_faulty",
                      "priority_increase", "test_tool_ready_for_new_build",
                      "test_tool_shutdown", "pause", "resume", "force_build"},
           NEW b \in Builds \cup {None}, NEW f \in BOOLEAN
    PROVE  /\ Sig(n, b, f) \in Signals
           /\ Sig(n, b, f).name = n /\ Sig(n, b, f).build = b
BY DEF Sig, Signals

----------------------------------------------------------------------------
(* Steps that change nothing the invariant looks at *)

Like(v, w) ==
    /\ v.build = w.build /\ v.late = w.late
    /\ w.started => v.started
    /\ w.error => v.error
    /\ v.error => w.error \/ w.tool = "gone" \/ env.failures # {}
    /\ (v.thread = "launch") = (w.thread = "launch")
    /\ (v.tool = "gone") = (w.tool = "gone")
    /\ (v.tool = "off") = (w.tool = "off")

SameBus ==
    BusOK(bus') /\ \A b \in Builds \cup {None} : (Announces(bus', b) <=> Announces(bus, b))

SameRuns ==
    /\ runs' \in Seq(Run) /\ Len(runs') = Len(runs)
    /\ DOMAIN runs' = DOMAIN runs
    /\ \A r \in DOMAIN runs : RunOK(runs'[r]) /\ Like(runs'[r], runs[r])

SameCtl ==
    /\ ctl' \in Controller
    /\ ctl'.pc = ctl.pc /\ ctl'.build = ctl.build /\ ctl'.handler = ctl.handler

SameEnv == env' \in Scenario /\ env'.failures = env.failures

LEMMA RunsLike == ServiceTypes /\ UNCHANGED runs => SameRuns
BY DEF ServiceTypes, SameRuns, Like

LEMMA QuietStep ==
    ASSUME ServiceInv, SameEnv, SameBus, SameCtl, SameRuns, NoNewTest(db, db'),
           GatewayOK'
    PROVE  ServiceInv'
<1>1. ServiceTypes'
    BY DEF ServiceInv, ServiceTypes, SameEnv, SameBus, SameCtl, SameRuns, NoNewTest
<1>2. ctl.handler # 0 => ctl.handler \in DOMAIN runs
    BY DEF ServiceInv, ServiceTypes
<1>3. OneLaunch'
    BY <1>2 DEF ServiceInv, OneLaunch, SameCtl, SameRuns, Like
<1>4. \A r \in DOMAIN runs : runs[r].build \in Builds
    BY DEF ServiceInv, ServiceTypes, RunOK, Run
<1>5. OneTool'
  <2>1. (\A r \in DOMAIN runs' : ~runs'[r].late) => \A r \in DOMAIN runs : ~runs[r].late
      BY DEF SameRuns, Like
  <2>2. \A r \in DOMAIN runs : (Busy(r)' => Busy(r)) /\ (Alive(r)' => Alive(r))
      BY DEF Busy, Alive, SameRuns, Like
  <2>3. \A r \in DOMAIN runs :
            /\ runs'[r].build = runs[r].build
            /\ (Announces(bus', runs[r].build) <=> Announces(bus, runs[r].build))
      BY <1>4 DEF SameRuns, SameBus, Like
  <2>4. QED
      BY <2>1, <2>2, <2>3 DEF ServiceInv, OneTool, SameCtl, SameRuns
<1>6. EndAnnounced'
  <2>1. ctl.build \in Builds \cup {None}
      BY DEF ServiceInv, ServiceTypes, Controller
  <2>2. ctl.handler # 0 =>
            /\ runs'[ctl.handler].build = runs[ctl.handler].build
            /\ runs'[ctl.handler].tool = "gone" => runs[ctl.handler].tool = "gone"
      BY <1>2 DEF SameRuns, Like
  <2>3. \A b \in Builds : Ongoing(db', b) => Ongoing(db, b)
      BY DEF NoNewTest
  <2>4. env.failures = {} => \A r \in DOMAIN runs' :
            runs'[r].error => runs'[r].tool = "gone"
      BY DEF ServiceInv, EndAnnounced, SameRuns, Like
  <2>5. QED
      BY <2>1, <2>2, <2>3, <2>4 DEF ServiceInv, EndAnnounced, SameCtl, SameEnv, SameBus
<1>7. QED BY <1>1, <1>3, <1>5, <1>6 DEF ServiceInv

(* runs are changed one by one *)
LEMMA ChangedRuns ==
    ASSUME ServiceTypes, NEW f, DOMAIN f = DOMAIN runs, f = [r \in DOMAIN f |-> f[r]],
           \A r \in DOMAIN runs : f[r] \in Run
    PROVE  f \in Seq(Run) /\ Len(f) = Len(runs) /\ DOMAIN f = 1 .. Len(runs)
<1>1. runs \in Seq(Run) /\ Len(runs) \in Nat /\ DOMAIN runs = 1 .. Len(runs)
    BY DEF ServiceTypes
<1>2. f \in [1 .. Len(runs) -> Run]
    BY <1>1
<1>3. f \in Seq(Run)
    BY <1>1, <1>2, SeqDef
<1>4. QED BY <1>1, <1>3

LEMMA OneRunChanged ==
    ASSUME ServiceTypes, NEW r \in DOMAIN runs, NEW v, RunOK(v), Like(v, runs[r]),
           runs' = [runs EXCEPT ![r] = v]
    PROVE  SameRuns
<1>1. \A q \in DOMAIN runs : RunOK(runs[q]) /\ Like(runs[q], runs[q])
    BY DEF ServiceTypes, Like
<1>2. /\ DOMAIN runs' = DOMAIN runs /\ runs' = [q \in DOMAIN runs' |-> runs'[q]]
      /\ \A q \in DOMAIN runs : runs'[q] = IF q = r THEN v ELSE runs[q]
    OBVIOUS
<1>3. \A q \in DOMAIN runs : RunOK(runs'[q]) /\ Like(runs'[q], runs[q])
    BY <1>1, <1>2
<1>4. \A q \in DOMAIN runs : runs'[q] \in Run
    BY <1>3 DEF RunOK
<1>5. QED BY <1>2, <1>3, <1>4, ChangedRuns DEF SameRuns

LEMMA SentRuns ==
    ASSUME ServiceTypes, NEW h, NEW cmd \in {"quit", "resume"}, runs' = Sent(h, cmd)
    PROVE  SameRuns
<1> DEFINE g(r) == [runs[r] EXCEPT !.inbox = Append(@, cmd)]
<1>1. \A r \in DOMAIN runs : RunOK(runs[r])
    BY DEF ServiceTypes
<1>2. ASSUME NEW r \in DOMAIN runs PROVE RunOK(g(r)) /\ Like(g(r), runs[r])
  <2> DEFINE v == runs[r]
  <2>1. RunOK(v) /\ v \in Run
      BY <1>1 DEF RunOK
  <2> HIDE DEF v
  <2>2. [v EXCEPT !.inbox = Append(@, cmd)] \in Run
    <3>1. v.inbox \in Seq({"quit", "resume"})
        BY <2>1 DEF Run
    <3>2. Append(v.inbox, cmd) \in Seq({"quit", "resume"})
        BY <3>1, AppendProperties
    <3> DEFINE x == Append(v.inbox, cmd)
    <3> HIDE DEF x
    <3>3. [v EXCEPT !.inbox = x] \in Run
        BY <2>1, <3>2 DEF Run, x
    <3>4. QED BY <3>3 DEF x
  <2>3. RunOK([v EXCEPT !.inbox = Append(@, cmd)])
        /\ Like([v EXCEPT !.inbox = Append(@, cmd)], v)
      BY <2>1, <2>2 DEF RunOK, Like, Run
  <2>4. QED BY <2>3 DEF v
<1>3. \A r \in DOMAIN runs : Like(runs[r], runs[r])
    BY DEF Like
<1>4. /\ DOMAIN runs' = DOMAIN runs /\ runs' = [q \in DOMAIN runs' |-> runs'[q]]
      /\ \A r \in DOMAIN runs : runs'[r] = g(r) \/ runs'[r] = runs[r]
    BY DEF Sent
<1> HIDE DEF g
<1>5. \A r \in DOMAIN runs : RunOK(runs'[r]) /\ Like(runs'[r], runs[r])
    BY <1>1, <1>2, <1>3, <1>4
<1>6. \A r \in DOMAIN runs : runs'[r] \in Run
    BY <1>5 DEF RunOK
<1>7. QED BY <1>4, <1>5, <1>6, ChangedRuns DEF SameRuns

(* taking a signal that announces nothing, and answering with another *)
LEMMA TakenSame ==
    ASSUME BusOK(bus), bus # <<>>, Head(bus).name # "test_tool_shutdown"
    PROVE  /\ bus' = Tail(bus) => SameBus
           /\ bus' = Append(Tail(bus), Check) => SameBus
<1>1. /\ BusOK(Tail(bus))
      /\ \A b : Announces(Tail(bus), b) <=> Announces(bus, b)
    BY SignalTaken, OtherSignals
<1>2. Check \in Signals /\ Check.name = "check_priority_list"
    BY DEF Check, Sig, Signals
<1>3. /\ BusOK(Append(Tail(bus), Check))
      /\ \A b : Announces(Append(Tail(bus), Check), b) <=> Announces(bus, b)
    BY <1>1, <1>2, SignalSent, OtherSignals
<1>4. QED BY <1>1, <1>3 DEF SameBus

LEMMA SentSame ==
    ASSUME BusOK(bus), NEW s \in Signals, s.name # "test_tool_shutdown",
           s.name = "force_build" => s.build \in Builds,
           bus' = Append(bus, s)
    PROVE  SameBus
BY SignalSent, OtherSignals DEF SameBus

LEMMA Still ==
    ASSUME ServiceInv
    PROVE  /\ UNCHANGED env => SameEnv
           /\ UNCHANGED bus => SameBus
           /\ UNCHANGED ctl => SameCtl
           /\ UNCHANGED runs => SameRuns
           /\ UNCHANGED db => NoNewTest(db, db')
           /\ UNCHANGED gw => GatewayOK'
           /\ BusOK(bus) /\ ServiceTypes
BY RunsLike DEF GatewayOK, ServiceInv, ServiceTypes, SameEnv, SameBus, SameCtl, NoNewTest

LEMMA IgnoreKeeps ==
    ASSUME ServiceInv, bus # <<>>, Head(bus).name # "test_tool_shutdown", Ignore
    PROVE  ServiceInv'
BY Still, TakenSame, QuietStep DEF Ignore

----------------------------------------------------------------------------
(* The gateway and the operator *)

LEMMA EmittedSame ==
    ASSUME BusOK(bus), NEW a, NEW b \in Builds, NEW p \in BOOLEAN,
           bus' = bus \o Emitted(a, b, p)
    PROVE  SameBus
<1>1. bus \in Seq(Signals)
    BY DEF BusOK
<1>2. CASE Emitted(a, b, p) = <<>>
    BY <1>1, <1>2 DEF SameBus
<1>3. ASSUME NEW n \in {"check_priority_list", "set_test_to_faulty", "priority_increase"},
             NEW c \in Builds \cup {None}, NEW f \in BOOLEAN,
             Emitted(a, b, p) = <<Sig(n, c, f)>>
      PROVE  SameBus
  <2> DEFINE s == Sig(n, c, f)
  <2>1. s \in Signals /\ s.name = n
      BY SigType
  <2>2. Emitted(a, b, p) = <<s>>
      BY <1>3
  <2> HIDE DEF s
  <2>3. bus' = Append(bus, s)
      BY <1>1, <2>1, <2>2, AppendIsConcat
  <2>4. QED BY <2>1, <2>3, SentSame
<1>4. \/ Emitted(a, b, p) = <<>>
      \/ Emitted(a, b, p) = <<Sig("check_priority_list", None, FALSE)>>
      \/ Emitted(a, b, p) = <<Sig("set_test_to_faulty", b, FALSE)>>
      \/ Emitted(a, b, p) = <<Sig("priority_increase", b, p)>>
    BY DEF Emitted, Check
<1>5. QED BY <1>2, <1>3, <1>4

LEMMA HandleKeeps ==
    ASSUME ServiceInv, NEW b \in Builds, NEW t \in Triggers, Handle(b, t)
    PROVE  ServiceInv'
<1>1. UNCHANGED <<ctl, runs, env>>
    BY DEF Handle
<1>2. /\ RecordsThere(db) /\ BusOK(bus) /\ GatewayOK
      /\ gw[b][t].was_pending \in BOOLEAN
    BY DEF ServiceInv, ServiceTypes, GatewayOK
<1> DEFINE a == TriggerTranslator[t][gw[b][t].at]
<1>3. CASE Raises(a, b)
  <2>1. PICK n : gw' = [gw EXCEPT ![b][t].at = n]
      BY <1>3 DEF Handle
  <2>2. GatewayOK'
      BY <1>2, <2>1 DEF GatewayOK
  <2>3. UNCHANGED <<db, bus>>
      BY <1>3 DEF Handle
  <2>4. QED BY <1>1, <2>2, <2>3, Still, QuietStep
<1>4. CASE ~Raises(a, b)
  <2>1. PICK n : /\ gw' = [gw EXCEPT ![b][t] = n]
                 /\ DOMAIN n = {"at", "was_pending", "dropped"}
                 /\ n.was_pending \in BOOLEAN
    <3> DEFINE n == [at |-> gw[b][t].at + 1,
                     was_pending |-> a = "priority_increase" /\ IsPending(b),
                     dropped |-> gw[b][t].dropped \cup DroppedBy(a, b)]
    <3>1. gw' = [gw EXCEPT ![b][t] = n]
        BY <1>4 DEF Handle
    <3>2. DOMAIN n = {"at", "was_pending", "dropped"} /\ n.was_pending \in BOOLEAN
        OBVIOUS
    <3> HIDE DEF n
    <3>3. QED BY <3>1, <3>2
  <2>2. GatewayOK'
      BY <1>2, <2>1 DEF GatewayOK
  <2>3. /\ db' = AfterAction(a, b)
        /\ bus' = bus \o Emitted(a, b, gw[b][t].was_pending)
      BY <1>4 DEF Handle
  <2> HIDE DEF a
  <2>4. NoNewTest(db, db')
      BY <1>2, <1>4, <2>3, ActionsStartNoTest
  <2>5. SameBus
      BY <1>2, <2>3, EmittedSame
  <2>6. QED BY <1>1, <2>2, <2>4, <2>5, Still, QuietStep
<1>5. QED BY <1>3, <1>4

LEMMA CommandKeeps ==
    ASSUME ServiceInv, NEW c \in env.commands, NEW b \in Builds \cup {None},
           Command(c, b)
    PROVE  ServiceInv'
<1>1. env \in Scenario /\ BusOK(bus)
    BY DEF ServiceInv, ServiceTypes
<1>2. c \in {"pause", "resume", "force_build"}
    BY <1>1 DEF Scenario
<1>3. UNCHANGED <<db, gw, ctl, runs>>
    BY DEF Command
<1>4. SameEnv
  <2>1. env' = [env EXCEPT !.cli = @ - 1] /\ env.cli \in Nat /\ env.cli > 0
      BY <1>1 DEF Command, Scenario
  <2>2. env.cli - 1 \in Nat
      BY <2>1
  <2>3. QED BY <1>1, <2>1, <2>2 DEF SameEnv, Scenario
<1>5. SameBus
  <2> DEFINE s == Sig(c, b, FALSE)
  <2>1. s \in Signals /\ s.name = c /\ s.build = b
      BY <1>2 DEF Sig, Signals
  <2>2. (c = "force_build" => b \in Builds) /\ bus' = Append(bus, s)
      BY DEF Command
  <2> HIDE DEF s
  <2>3. QED BY <1>1, <1>2, <2>1, <2>2, SentSame
<1>6. QED BY <1>3, <1>4, <1>5, Still, QuietStep

----------------------------------------------------------------------------
(* The controller *)

LEMMA TakesMeans ==
    ASSUME NEW n, Takes(n), n # "test_tool_shutdown"
    PROVE  ctl.pc = "idle" /\ bus # <<>> /\ Head(bus).name = n
           /\ Head(bus).name # "test_tool_shutdown"
BY DEF Takes

(* update_build_status: no status but TEST_ONGOING puts a build under test *)
LEMMA StatusStartsNoTest ==
    ASSUME RecordsThere(db), NEW s, s # "TEST_ONGOING"
    PROVE  NoNewTest(db, StatusAfter(s))
<1>1. NoNewTest(db, db)
    BY SameRecords DEF SameInfo
<1>2. ctl.build \in Known(db) => NoNewTest(db, set_status(db, ctl.build, s))
    BY RecordRequests
<1>3. StatusAfter(s) = db
      \/ (ctl.build \in Known(db) /\ StatusAfter(s) = set_status(db, ctl.build, s))
    BY DEF StatusAfter
<1>4. QED BY <1>1, <1>2, <1>3

(* a step of the controller that changes its flags only *)
LEMMA FlagsSame ==
    ASSUME ServiceTypes, NEW x \in BOOLEAN
    PROVE  /\ ctl' = [ctl EXCEPT !.stoppable = x] => SameCtl
           /\ ctl' = [ctl EXCEPT !.high = x] => SameCtl
           /\ ctl' = [ctl EXCEPT !.paused = x] => SameCtl
<1>1. ctl \in Controller
    BY DEF ServiceTypes
<1>2. QED BY <1>1 DEF SameCtl, Controller

LEMMA QuietController ==
    ASSUME ServiceInv,
           \/ set_test_to_faulty \/ priority_increased
           \/ test_tool_ready_for_new_build \/ pause \/ resume
    PROVE  ServiceInv'
<1>1. ServiceTypes /\ BusOK(bus) /\ RecordsThere(db)
    BY DEF ServiceInv, ServiceTypes
<1>2. CASE set_test_to_faulty
  <2>1. bus # <<>> /\ Head(bus).name # "test_tool_shutdown"
      BY <1>2, TakesMeans DEF set_test_to_faulty
  <2>2. CASE Ignore
      BY <2>1, <2>2, IgnoreKeeps
  <2>3. CASE ~Ignore
    <3>1. /\ bus' = Append(Tail(bus), Check) /\ db' = StatusAfter("CANCELLED")
          /\ ctl' = [ctl EXCEPT !.stoppable = TRUE]
          /\ UNCHANGED <<gw, runs, env>>
        BY <1>2, <2>3 DEF set_test_to_faulty
    <3>2. NoNewTest(db, db')
        BY <1>1, <3>1, StatusStartsNoTest
    <3>3. SameBus /\ SameCtl
        BY <1>1, <2>1, <3>1, TakenSame, FlagsSame
    <3>4. QED BY <3>1, <3>2, <3>3, Still, QuietStep
  <2>4. QED BY <2>2, <2>3
<1>3. CASE priority_increased
  <2>1. bus # <<>> /\ Head(bus).name # "test_tool_shutdown"
      BY <1>3, TakesMeans DEF priority_increased
  <2>2. CASE Ignore
      BY <2>1, <2>2, IgnoreKeeps
  <2>3. CASE ~Ignore
    <3>1. /\ bus' = Tail(bus) \/ bus' = Append(Tail(bus), Check)
          /\ \/ ctl' = [ctl EXCEPT !.high = TRUE]
             \/ ctl' = [ctl EXCEPT !.stoppable = TRUE]
          /\ UNCHANGED <<db, gw, runs, env>>
        BY <1>3, <2>3 DEF priority_increased
    <3>2. SameBus /\ SameCtl
        BY <1>1, <2>1, <3>1, TakenSame, FlagsSame
    <3>3. QED BY <3>1, <3>2, Still, QuietStep
  <2>4. QED BY <2>2, <2>3
<1>4. CASE test_tool_ready_for_new_build
  <2>1. bus # <<>> /\ Head(bus).name # "test_tool_shutdown"
      BY <1>4, TakesMeans DEF test_tool_ready_for_new_build
  <2>2. /\ bus' = Tail(bus) \/ bus' = Append(Tail(bus), Check)
        /\ ctl' = [ctl EXCEPT !.stoppable = TRUE] \/ ctl' = ctl
        /\ runs' = Sent(ctl.handler, "resume") \/ runs' = runs
        /\ UNCHANGED <<db, gw, env>>
      BY <1>4 DEF test_tool_ready_for_new_build
  <2>3. SameBus /\ SameCtl /\ SameRuns
      BY <1>1, <2>1, <2>2, TakenSame, FlagsSame, SentRuns, Still
  <2>4. QED BY <2>2, <2>3, Still, QuietStep
<1>5. CASE pause
  <2>1. bus # <<>> /\ Head(bus).name # "test_tool_shutdown"
      BY <1>5, TakesMeans DEF pause
  <2>2. /\ bus' = Tail(bus) /\ ctl' = [ctl EXCEPT !.paused = TRUE]
        /\ UNCHANGED <<db, gw, runs, env>>
      BY <1>5 DEF pause
  <2>3. SameBus /\ SameCtl
      BY <1>1, <2>1, <2>2, TakenSame, FlagsSame
  <2>4. QED BY <2>2, <2>3, Still, QuietStep
<1>6. CASE resume
  <2>1. bus # <<>> /\ Head(bus).name # "test_tool_shutdown"
      BY <1>6, TakesMeans DEF resume
  <2>2. CASE Ignore
      BY <2>1, <2>2, IgnoreKeeps
  <2>3. CASE ~Ignore
    <3>1. /\ bus' = Append(Tail(bus), Check) /\ ctl' = [ctl EXCEPT !.paused = FALSE]
          /\ UNCHANGED <<db, gw, runs, env>>
        BY <1>6, <2>3 DEF resume
    <3>2. SameBus /\ SameCtl
        BY <1>1, <2>1, <3>1, TakenSame, FlagsSame
    <3>3. QED BY <3>1, <3>2, Still, QuietStep
  <2>4. QED BY <2>2, <2>3
<1>7. QED BY <1>2, <1>3, <1>4, <1>5, <1>6

(* What the controller knows when it has no ongoing test: no tool is at    *)
(* work, and the end of the last test it started is announced.             *)
LEMMA NothingAtWork ==
    ASSUME ServiceInv, ctl.pc = "idle", ~ongoing_test
    PROVE  /\ (\A r \in DOMAIN runs : ~runs[r].late) => \A q \in DOMAIN runs : ~Busy(q)
           /\ env.failures = {} =>
                  /\ ctl.handler # 0 /\ ctl.build = runs[ctl.handler].build
                         => Announces(bus, ctl.build)
                  /\ \A b \in Builds : Ongoing(db, b) => Announces(bus, b)
<1>1. /\ \A r \in DOMAIN runs : RunOK(runs[r])
      /\ ctl.handler # 0 => ctl.handler \in DOMAIN runs
    BY DEF ServiceInv, ServiceTypes
<1>2. ctl.handler # 0 => /\ runs[ctl.handler].started
                         /\ runs[ctl.handler].tool = "gone" \/ runs[ctl.handler].error
    BY <1>1 DEF ServiceInv, OneLaunch, ongoing_test, RunOK
<1>3. ASSUME NEW q \in DOMAIN runs, Busy(q), ctl.handler = q PROVE FALSE
  <2>1. runs[q].started /\ (runs[q].tool = "gone" \/ runs[q].error)
    <3>1. q # 0
        BY DEF ServiceInv, ServiceTypes
    <3>2. QED BY <1>2, <1>3, <3>1
  <2>2. QED BY <1>1, <1>3, <2>1 DEF Busy, Alive, RunOK
<1>4. (\A r \in DOMAIN runs : ~runs[r].late) => \A q \in DOMAIN runs : ~Busy(q)
    BY <1>3 DEF ServiceInv, OneTool
<1>5. env.failures = {} /\ ctl.handler # 0 /\ ctl.build = runs[ctl.handler].build
      => Announces(bus, ctl.build)
    BY <1>1, <1>2 DEF ServiceInv, EndAnnounced
<1>6. env.failures = {} => \A b \in Builds : Ongoing(db, b) => Announces(bus, b)
    BY <1>5 DEF ServiceInv, EndAnnounced
<1>7. QED BY <1>4, <1>5, <1>6

(* No tool is launched or at work: then the step may move the controller   *)
(* to where it starts a test.                                              *)
LEMMA RestingStep ==
    ASSUME ServiceInv,
           (\A r \in DOMAIN runs : ~runs[r].late) => \A q \in DOMAIN runs : ~Busy(q),
           \A r \in DOMAIN runs : runs[r].thread # "launch",
           env.failures = {} => \A b \in Builds : Ongoing(db, b) => Announces(bus, b),
           UNCHANGED <<env, runs, gw>>, NoNewTest(db, db'), SameBus,
           ctl' \in Controller, ctl'.handler \in {0, ctl.handler},
           ctl'.pc \in {"idle", "get_build", "prepare", "faulty"},
           ctl'.pc = "prepare" => ctl'.build \in Builds,
           ctl'.pc \in {"idle", "get_build"} /\ ctl'.handler # 0 =>
               runs[ctl.handler].started,
           /\ env.failures = {} /\ ctl'.pc \in {"idle", "get_build"}
           /\ ctl'.handler # 0 /\ ctl'.build = runs[ctl.handler].build
           => Announces(bus, ctl'.build)
    PROVE  ServiceInv'
<1>1. ServiceTypes'
    BY DEF ServiceInv, ServiceTypes, SameBus, NoNewTest, GatewayOK
<1>2. OneLaunch'
    BY DEF ServiceInv, OneLaunch
<1>3. OneTool'
    BY DEF ServiceInv, OneTool, Busy, Alive
<1>4. ctl'.build \in Builds \cup {None}
    BY DEF Controller
<1>5. EndAnnounced'
    BY <1>4 DEF ServiceInv, EndAnnounced, SameBus, NoNewTest
<1>6. QED BY <1>1, <1>2, <1>3, <1>5 DEF ServiceInv

LEMMA CheckKeeps ==
    ASSUME ServiceInv, check_priority_list
    PROVE  ServiceInv'
<1>1. ctl.pc = "idle" /\ bus # <<>> /\ Head(bus).name # "test_tool_shutdown"
    BY TakesMeans DEF check_priority_list
<1>2. ServiceTypes /\ BusOK(bus) /\ ctl \in Controller
    BY DEF ServiceInv, ServiceTypes
<1>3. CASE Ignore
    BY <1>1, <1>3, IgnoreKeeps
<1>4. CASE ~Ignore
  <2>1. bus' = Tail(bus) /\ UNCHANGED <<db, gw, env>>
      BY <1>4 DEF check_priority_list
  <2>2. SameBus /\ NoNewTest(db, db')
      BY <1>1, <1>2, <2>1, TakenSame, Still
  <2>3. CASE ongoing_test
    <3>1. runs' = Sent(ctl.handler, "quit") /\ UNCHANGED ctl
        BY <1>4, <2>3 DEF check_priority_list
    <3>2. QED BY <1>2, <2>1, <2>2, <3>1, SentRuns, Still, QuietStep
  <2>4. CASE ~ongoing_test
    <3>1. ctl' = [ctl EXCEPT !.pc = "get_build"] /\ UNCHANGED runs
        BY <1>4, <2>4 DEF check_priority_list
    <3>2. /\ ctl' \in Controller /\ ctl'.pc = "get_build"
          /\ ctl'.build = ctl.build /\ ctl'.handler = ctl.handler
        BY <1>2, <3>1 DEF Controller
    <3>3. /\ \A r \in DOMAIN runs : runs[r].thread # "launch"
          /\ ctl.handler # 0 => runs[ctl.handler].started
        BY <1>1 DEF ServiceInv, OneLaunch
    <3>4. QED BY <1>1, <2>1, <2>2, <2>4, <3>1, <3>2, <3>3, NothingAtWork, RestingStep
  <2>5. QED BY <2>3, <2>4
<1>5. QED BY <1>3, <1>4

(* between two tests nothing is at work either *)
LEMMA BetweenTests ==
    ASSUME ServiceInv, ctl.pc \in {"get_build", "prepare", "faulty"}
    PROVE  /\ (\A r \in DOMAIN runs : ~runs[r].late) => \A q \in DOMAIN runs : ~Busy(q)
           /\ \A r \in DOMAIN runs : runs[r].thread # "launch"
           /\ env.failures = {} =>
                  \A b \in Builds : Ongoing(db, b) => Announces(bus, b)
BY DEF ServiceInv, OneTool, OneLaunch, EndAnnounced

LEMMA GetBuildKeeps ==
    ASSUME ServiceInv, get_build
    PROVE  ServiceInv'
<1> DEFINE b == find_next_build(db)[1]
           high == find_next_build(db)[2]
<1>1. /\ ctl.pc = "get_build" /\ UNCHANGED <<gw, bus, runs, env>>
      /\ db' = IF b = None THEN db ELSE extract(db)
      /\ \/ b = None /\ ctl' = [ctl EXCEPT !.pc = "idle", !.build = None, !.high = FALSE]
         \/ ctl' = [ctl EXCEPT !.pc = "idle"]
         \/ /\ b \in Known(db) /\ b # None
            /\ ctl' = [ctl EXCEPT !.pc = "prepare", !.build = b, !.high = high]
    BY DEF get_build
<1>2. b # None => high \in BOOLEAN
    BY DEF find_next_build
<1> HIDE DEF b, high
<1>3. ctl \in Controller /\ RecordsThere(db) /\ Known(db) \subseteq Builds
    BY DEF ServiceInv, ServiceTypes, RecordsThere
<1>4. NoNewTest(db, db')
    BY <1>1, <1>3, ExtractRequest, SameRecords, Still
<1>5. /\ ctl.handler # 0 => ctl.handler \in DOMAIN runs
      /\ ctl.handler # 0 => runs[ctl.handler].started
      /\ \A r \in DOMAIN runs : runs[r].build \in Builds
    BY <1>1 DEF ServiceInv, ServiceTypes, OneLaunch, RunOK, Run
<1>6. /\ ctl' \in Controller /\ ctl'.handler = ctl.handler
      /\ ctl'.pc \in {"idle", "prepare"}
      /\ ctl'.pc = "prepare" => ctl'.build \in Builds
      /\ ctl'.pc = "idle" => ctl'.build \in {None, ctl.build}
  <2>1. CASE ctl' = [ctl EXCEPT !.pc = "idle", !.build = None, !.high = FALSE]
      BY <1>3, <2>1 DEF Controller
  <2>2. CASE ctl' = [ctl EXCEPT !.pc = "idle"]
      BY <1>3, <2>2 DEF Controller
  <2>3. CASE /\ b \in Builds /\ high \in BOOLEAN
             /\ ctl' = [ctl EXCEPT !.pc = "prepare", !.build = b, !.high = high]
      BY <1>3, <2>3 DEF Controller
  <2>4. QED BY <1>1, <1>2, <1>3, <2>1, <2>2, <2>3
<1>7. /\ env.failures = {} /\ ctl'.pc = "idle"
      /\ ctl'.handler # 0 /\ ctl'.build = runs[ctl.handler].build
      => Announces(bus, ctl'.build)
    BY <1>1, <1>5, <1>6, BuildsAssumption
       DEF ServiceInv, EndAnnounced, ServiceTypes, RunOK
<1>8. QED BY <1>1, <1>4, <1>5, <1>6, <1>7, BetweenTests, Still, RestingStep

LEMMA PrepareFailsKeeps ==
    ASSUME ServiceInv, prepare_fails
    PROVE  ServiceInv'
<1>1. /\ ctl.pc = "prepare" /\ ctl' = [ctl EXCEPT !.pc = "faulty"]
      /\ UNCHANGED <<db, gw, bus, runs, env>>
    BY DEF prepare_fails
<1>2. ctl' \in Controller /\ ctl'.pc = "faulty" /\ ctl'.handler = ctl.handler
    BY <1>1 DEF ServiceInv, ServiceTypes, Controller
<1>3. QED BY <1>1, <1>2, BetweenTests, Still, RestingStep

LEMMA StartFailedKeeps ==
    ASSUME ServiceInv, start_failed
    PROVE  ServiceInv'
<1>1. /\ ctl.pc = "faulty" /\ UNCHANGED <<gw, bus, runs, env>>
      /\ ctl' = [ctl EXCEPT !.pc = "idle", !.handler = 0, !.stoppable = FALSE,
                            !.build = None, !.high = FALSE]
      /\ db' = StatusAfter("TEST_FAULTY")
    BY DEF start_failed
<1>2. NoNewTest(db, db')
    BY <1>1, StatusStartsNoTest DEF ServiceInv, ServiceTypes
<1>3. ctl' \in Controller /\ ctl'.pc = "idle" /\ ctl'.handler = 0
    BY <1>1 DEF ServiceInv, ServiceTypes, Controller
<1>4. QED BY <1>1, <1>2, <1>3, BetweenTests, Still, RestingStep

LEMMA ForceBuildKeeps ==
    ASSUME ServiceInv, force_build
    PROVE  ServiceInv'
<1>1. /\ ctl.pc = "idle" /\ bus # <<>> /\ Head(bus).name = "force_build"
      /\ Head(bus).name # "test_tool_shutdown"
    BY TakesMeans DEF force_build
<1>2. ServiceTypes /\ BusOK(bus) /\ ctl \in Controller /\ RecordsThere(db)
    BY DEF ServiceInv, ServiceTypes
<1>3. CASE Ignore
    BY <1>1, <1>3, IgnoreKeeps
<1>4. CASE ~Ignore
  <2>1. PICK high \in BOOLEAN :
            /\ ~ongoing_test /\ bus' = Tail(bus)
            /\ db' = priority_del(db, Head(bus).build, FALSE)
            /\ ctl' = [ctl EXCEPT !.pc = "prepare", !.build = Head(bus).build,
                                  !.high = high]
            /\ UNCHANGED <<gw, runs, env>>
      BY <1>4 DEF force_build
  <2>2. Head(bus).build \in Builds
      BY <1>1, <1>2, SignalTaken
  <2>3. NoNewTest(db, db') /\ SameBus
      BY <1>1, <1>2, <2>1, <2>2, PriorityDelRequest, TakenSame
  <2>4. /\ ctl' \in Controller /\ ctl'.pc = "prepare"
        /\ ctl'.build \in Builds /\ ctl'.handler = ctl.handler
      BY <1>2, <2>1, <2>2 DEF Controller
  <2>5. \A r \in DOMAIN runs : runs[r].thread # "launch"
      BY <1>1 DEF ServiceInv, OneLaunch
  <2>6. QED BY <1>1, <2>1, <2>3, <2>4, <2>5, NothingAtWork, RestingStep
<1>5. QED BY <1>3, <1>4

LEMMA NewRunOK ==
    ASSUME NEW b \in Builds
    PROVE  /\ RunOK(NewRun(b))
           /\ NewRun(b).build = b /\ NewRun(b).thread = "launch"
           /\ NewRun(b).tool = "off" /\ ~NewRun(b).error
           /\ NewRun(b).late <=>
                  \/ Announces(bus, b)
                  \/ \E r \in DOMAIN runs : Alive(r) /\ runs[r].build = b
<1>1. 0 \in 0 .. LastTest
    BY ServiceAssumption DEF LastTest
<1> DEFINE y == \E r \in DOMAIN runs : Alive(r) /\ runs[r].build = b
           x == ShutdownOnTheWay(b) \/ y
<1> HIDE DEF y
<1>2. x \in BOOLEAN /\ (x <=> Announces(bus, b) \/ y)
    BY DEF ShutdownOnTheWay, Announces
<1> HIDE DEF x
<1>3. NewRun(b) =
          [build |-> b, thread |-> "launch", ongoing |-> FALSE, started |-> FALSE,
           error |-> FALSE, tool |-> "off", printed |-> FALSE, paused |-> FALSE,
           exit |-> FALSE, tests |-> 0, ok |-> TRUE, inbox |-> <<>>, late |-> x]
    BY DEF NewRun, x, y
<1>4. NewRun(b) \in Run
    BY <1>1, <1>2, <1>3 DEF Run
<1>5. /\ NewRun(b).build = b /\ NewRun(b).thread = "launch"
      /\ NewRun(b).tool = "off" /\ ~NewRun(b).started /\ ~NewRun(b).error
      /\ NewRun(b).late = x
    BY <1>3
<1>6. QED BY <1>2, <1>4, <1>5 DEF RunOK, y

LEMMA PrepareKeeps ==
    ASSUME ServiceInv, prepare
    PROVE  ServiceInv'
<1> DEFINE v == NewRun(ctl.build)
           n == Len(runs) + 1
<1>1. /\ ctl.pc = "prepare" /\ runs' = Append(runs, v)
      /\ ctl' = [ctl EXCEPT !.pc = "wait", !.stoppable = FALSE, !.handler = n]
      /\ UNCHANGED <<db, gw, bus, env>>
    BY DEF prepare
<1>2. /\ ctl.build \in Builds /\ ctl \in Controller
      /\ runs \in Seq(Run) /\ Len(runs) \in Nat /\ DOMAIN runs = 1 .. Len(runs)
    BY <1>1 DEF ServiceInv, ServiceTypes
<1>3. /\ RunOK(v) /\ v \in Run /\ v.build = ctl.build /\ v.thread = "launch"
      /\ v.tool = "off" /\ ~v.error
      /\ v.late <=> \/ Announces(bus, ctl.build)
                    \/ \E r \in DOMAIN runs : Alive(r) /\ runs[r].build = ctl.build
    BY <1>2, NewRunOK DEF RunOK
<1> HIDE DEF v
<1>4. /\ runs' \in Seq(Run) /\ Len(runs') = n /\ DOMAIN runs' = 1 .. n
      /\ n \in DOMAIN runs' /\ runs'[n] = v /\ n # 0 /\ n \in Nat
      /\ \A q \in DOMAIN runs' : q = n \/ q \in DOMAIN runs
      /\ \A q \in DOMAIN runs : q \in DOMAIN runs' /\ runs'[q] = runs[q]
    BY <1>1, <1>2, <1>3
<1>5. /\ ctl' \in Controller /\ ctl'.pc = "wait" /\ ctl'.handler = n
      /\ ctl'.build = ctl.build
    BY <1>1, <1>2, <1>4 DEF Controller
<1>6. n \in 0 .. Len(runs')
    BY <1>4
<1> HIDE DEF n
<1>7. ServiceTypes'
    BY <1>1, <1>2, <1>3, <1>4, <1>5, <1>6 DEF ServiceInv, ServiceTypes, GatewayOK
<1>8. OneLaunch'
    BY <1>1, <1>3, <1>4, <1>5, BetweenTests DEF OneLaunch
<1>9. OneTool'
  <2> SUFFICES ASSUME \A r \in DOMAIN runs' : ~runs'[r].late,
                      NEW q \in DOMAIN runs', Busy(q)'
               PROVE  /\ ctl'.handler = q /\ ctl'.build = runs'[q].build
                      /\ ctl'.pc \in {"idle", "wait"}
                      /\ ~Announces(bus', runs'[q].build)
                      /\ \A z \in DOMAIN runs' :
                             Alive(z)' /\ runs'[z].build = runs'[q].build => z = q
      BY DEF OneTool
  <2>1. \A r \in DOMAIN runs : ~runs[r].late
      BY <1>4
  <2>2. q = n
    <3>1. q \in DOMAIN runs => ~Busy(q)
        BY <1>1, <2>1, BetweenTests
    <3>2. q \in DOMAIN runs => ~Busy(q)'
        BY <1>4, <3>1 DEF Busy, Alive
    <3>3. QED BY <1>4, <3>2
  <2>3. ~v.late
      BY <1>4
  <2>4. ASSUME NEW z \in DOMAIN runs', Alive(z)', runs'[z].build = runs'[q].build
        PROVE  z = q
    <3>1. z \in DOMAIN runs => Alive(z) /\ runs[z].build = ctl.build
        BY <1>3, <1>4, <2>2, <2>4 DEF Alive
    <3>2. QED BY <1>3, <1>4, <2>2, <2>3, <3>1
  <2>5. QED BY <1>1, <1>3, <1>4, <1>5, <2>2, <2>3, <2>4
<1>10. EndAnnounced'
  <2>1. env.failures = {} => \A r \in DOMAIN runs' :
            runs'[r].error => runs'[r].tool = "gone"
      BY <1>3, <1>4 DEF ServiceInv, EndAnnounced
  <2>2. QED BY <1>1, <1>3, <1>4, <1>5, <2>1, BetweenTests DEF EndAnnounced
<1>11. QED BY <1>7, <1>8, <1>9, <1>10 DEF ServiceInv

LEMMA WaitStartKeeps ==
    ASSUME ServiceInv, wait_start
    PROVE  ServiceInv'
<1> DEFINE h == ctl.handler
<1>1. /\ ctl.pc = "wait" /\ runs[h].started /\ UNCHANGED <<gw, bus, runs, env>>
      /\ IF runs[h].error
         THEN ctl' = [ctl EXCEPT !.pc = "faulty"] /\ UNCHANGED db
         ELSE ctl' = [ctl EXCEPT !.pc = "idle"] /\ db' = StatusAfter("TEST_ONGOING")
    BY DEF wait_start
<1>2. /\ ctl \in Controller /\ h \in DOMAIN runs /\ h # 0 /\ RecordsThere(db)
      /\ ctl.build = runs[h].build
    BY <1>1 DEF ServiceInv, ServiceTypes, OneLaunch
<1>3. \A r \in DOMAIN runs : runs[r].thread # "launch"
    BY <1>1, <1>2 DEF ServiceInv, ServiceTypes, OneLaunch, RunOK
<1>4. env.failures = {} => \A b \in Builds : Ongoing(db, b) => Announces(bus, b)
    BY <1>1 DEF ServiceInv, EndAnnounced
<1>5. CASE runs[h].error
  <2>1. ~Busy(h)
      BY <1>2, <1>3, <1>5 DEF Busy
  <2>2. (\A r \in DOMAIN runs : ~runs[r].late) => \A q \in DOMAIN runs : ~Busy(q)
      BY <2>1 DEF ServiceInv, OneTool
  <2>3. ctl' \in Controller /\ ctl'.pc = "faulty" /\ ctl'.handler = ctl.handler
      BY <1>1, <1>2, <1>5 DEF Controller
  <2>4. UNCHANGED db
      BY <1>1, <1>5
  <2>5. QED BY <1>1, <1>3, <1>4, <2>2, <2>3, <2>4, Still, RestingStep
<1>6. CASE ~runs[h].error
  <2>1. /\ ctl' \in Controller /\ ctl'.pc = "idle" /\ ctl'.handler = ctl.handler
        /\ ctl'.build = ctl.build
      BY <1>1, <1>2, <1>6 DEF Controller
  <2>2. /\ RecordsThere(db')
        /\ \A c \in Builds : c # ctl.build /\ Ongoing(db', c) => Ongoing(db, c)
    <3>1. db' = StatusAfter("TEST_ONGOING")
        BY <1>1, <1>6
    <3>2. CASE db' = db
        BY <1>2, <3>2
    <3>3. CASE db' # db
      <4>1. /\ ctl.build \in Known(db)
            /\ db' = set_status(db, ctl.build, "TEST_ONGOING")
          BY <3>1, <3>3 DEF StatusAfter
      <4>2. QED BY <1>2, <4>1, RecordRequests
    <3>4. QED BY <3>2, <3>3
  <2>3. ServiceTypes'
      BY <1>1, <2>1, <2>2 DEF ServiceInv, ServiceTypes, GatewayOK
  <2>4. OneLaunch'
      BY <1>1, <1>3, <2>1 DEF OneLaunch
  <2>5. OneTool'
      BY <1>1, <2>1 DEF ServiceInv, OneTool, Busy, Alive
  <2>6. EndAnnounced'
    <3>1. env.failures = {} /\ runs[h].tool = "gone" => Announces(bus, ctl.build)
        BY <1>1, <1>2 DEF ServiceInv, EndAnnounced
    <3>2. env.failures = {} => \A r \in DOMAIN runs : runs[r].error => runs[r].tool = "gone"
        BY DEF ServiceInv, EndAnnounced
    <3>3. QED BY <1>1, <1>2, <1>4, <2>1, <2>2, <3>1, <3>2 DEF EndAnnounced
  <2>7. QED BY <2>3, <2>4, <2>5, <2>6 DEF ServiceInv
<1>7. QED BY <1>5, <1>6

(* The signal is the only one that can be about the build under test: if a *)
(* tool were at work for it there would be none.                           *)
LEMMA ShutdownKeeps ==
    ASSUME ServiceInv, test_tool_shutdown
    PROVE  ServiceInv'
<1> DEFINE b == Head(bus).build
           res == CHOOSE r \in Results : TRUE
<1>1. /\ ctl.pc = "idle" /\ bus # <<>> /\ Head(bus).name = "test_tool_shutdown"
      /\ UNCHANGED <<gw, runs, env>>
      /\ db' = IF b \in Known(db) THEN add_build_test_result(db, b, res) ELSE db
      /\ IF b # ctl.build
         THEN bus' = Tail(bus) /\ UNCHANGED ctl
         ELSE /\ bus' = Append(Tail(bus), Check)
              /\ ctl' = [ctl EXCEPT !.stoppable = FALSE, !.handler = 0,
                                    !.build = None, !.high = FALSE]
    BY DEF test_tool_shutdown, Takes
<1>2. BusOK(bus) /\ RecordsThere(db) /\ ctl \in Controller
    BY DEF ServiceInv, ServiceTypes
<1> HIDE DEF res
<1>3. NoNewTest(db, db') /\ ~Ongoing(db', b)
  <2>1. CASE b \in Known(db)
      BY <1>1, <1>2, <2>1, RecordRequests
  <2>2. CASE b \notin Known(db)
      BY <1>1, <1>2, <2>2, SameRecords DEF SameInfo, Ongoing
  <2>3. QED BY <2>1, <2>2
<1>4. /\ Head(bus) = Sig("test_tool_shutdown", b, FALSE)
      /\ BusOK(Tail(bus)) /\ Announces(bus, b)
      /\ \A c : Announces(bus, c) /\ c # b => Announces(Tail(bus), c)
      /\ \A c : Announces(Tail(bus), c) => Announces(bus, c)
  <2>1. Head(bus) \in Signals /\ Head(bus).flag = FALSE
      BY <1>1, <1>2, SignalTaken
  <2>2. Head(bus) = Sig("test_tool_shutdown", b, FALSE)
      BY <1>1, <2>1 DEF Signals, Sig
  <2>3. /\ BusOK(Tail(bus))
        /\ \A c : Announces(bus, c) <=>
               \/ Announces(Tail(bus), c)
               \/ Head(bus) = Sig("test_tool_shutdown", c, FALSE)
      BY <1>1, <1>2, SignalTaken
  <2>4. \A c : Head(bus) = Sig("test_tool_shutdown", c, FALSE) => c = b
    <3>1. TAKE c
    <3>2. Sig("test_tool_shutdown", c, FALSE).build = c
        BY DEF Sig
    <3>3. QED BY <3>2
  <2> HIDE DEF b
  <2>5. QED BY <2>2, <2>3, <2>4
<1>5. \A r \in DOMAIN runs : runs[r].thread # "launch"
    BY <1>1 DEF ServiceInv, OneLaunch
<1> HIDE DEF b
<1>6. CASE b # ctl.build
  <2>1. bus' = Tail(bus) /\ UNCHANGED <<ctl, gw, runs, env>>
      BY <1>1, <1>6
  <2>2. ServiceTypes'
      BY <1>3, <1>4, <2>1 DEF ServiceInv, ServiceTypes, NoNewTest, GatewayOK
  <2>3. OneLaunch'
      BY <2>1 DEF ServiceInv, OneLaunch
  <2>4. OneTool'
      BY <1>4, <2>1 DEF ServiceInv, OneTool, Busy, Alive
  <2>5. EndAnnounced'
      BY <1>3, <1>4, <1>6, <2>1 DEF ServiceInv, EndAnnounced, NoNewTest
  <2>6. QED BY <2>2, <2>3, <2>4, <2>5 DEF ServiceInv
<1>7. CASE b = ctl.build
  <2>1. /\ bus' = Append(Tail(bus), Check) /\ UNCHANGED <<gw, runs, env>>
        /\ ctl' = [ctl EXCEPT !.stoppable = FALSE, !.handler = 0,
                              !.build = None, !.high = FALSE]
      BY <1>1, <1>7
  <2>2. ctl' \in Controller /\ ctl'.handler = 0 /\ ctl'.pc = "idle"
      BY <1>1, <1>2, <2>1 DEF Controller
  <2>3. BusOK(bus') /\ \A c : Announces(bus', c) <=> Announces(Tail(bus), c)
    <3>1. Check \in Signals /\ Check.name = "check_priority_list"
        BY DEF Check, Sig, Signals
    <3>2. QED BY <1>4, <2>1, <3>1, SignalSent, OtherSignals
  <2>4. ServiceTypes'
      BY <1>3, <2>1, <2>2, <2>3 DEF ServiceInv, ServiceTypes, NoNewTest, GatewayOK
  <2>5. OneLaunch'
      BY <1>5, <2>1, <2>2 DEF OneLaunch
  <2>6. OneTool'
    <3>1. (\A r \in DOMAIN runs : ~runs[r].late) => \A q \in DOMAIN runs : ~Busy(q)
        BY <1>4, <1>7 DEF ServiceInv, OneTool
    <3>2. QED BY <2>1, <3>1 DEF OneTool, Busy, Alive
  <2>7. EndAnnounced'
      BY <1>3, <1>4, <1>7, <2>1, <2>2, <2>3 DEF ServiceInv, EndAnnounced, NoNewTest
  <2>8. QED BY <2>4, <2>5, <2>6, <2>7 DEF ServiceInv
<1>8. QED BY <1>6, <1>7

----------------------------------------------------------------------------
(* The threads and their tools *)

LEMMA TestCount == LastTest \in Nat /\ 0 \in 0 .. LastTest
BY ServiceAssumption DEF LastTest

(* changes of a run that keep its tool, unless it was off or gone *)
LEMMA RunEdits ==
    ASSUME NEW w, RunOK(w)
    PROVE  /\ w.thread = "watch" =>
                  LET v == [w EXCEPT !.ongoing = TRUE, !.started = TRUE]
                  IN  RunOK(v) /\ Like(v, w)
           /\ w.thread = "watch" /\ w.tool = "gone" =>
                  LET v == [w EXCEPT !.ongoing = FALSE, !.thread = "done",
                                     !.started = TRUE, !.error = @ \/ ~w.started]
                  IN  RunOK(v) /\ Like(v, w)
           /\ w.thread = "watch" /\ env.failures # {} =>
                  LET v == [w EXCEPT !.thread = "done", !.started = TRUE, !.error = TRUE]
                  IN  RunOK(v) /\ Like(v, w)
           /\ w.tool = "launched" =>
                  LET v == [w EXCEPT !.tool = "top", !.printed = TRUE]
                  IN  RunOK(v) /\ Like(v, w)
           /\ w.tool = "top" /\ w.tests < LastTest =>
                  LET v == [w EXCEPT !.tool = "picked", !.tests = @ + 1]
                  IN  RunOK(v) /\ Like(v, w)
           /\ w.tool = "picked" =>
                  LET v == [w EXCEPT !.tool = "testing", !.exit = FALSE]
                  IN  RunOK(v) /\ Like(v, w)
           /\ w.tool = "ready" =>
                  LET v == [w EXCEPT !.tool = "top", !.paused = TRUE]
                  IN  RunOK(v) /\ Like(v, w)
           /\ w.tool = "top" =>
                  LET v == [w EXCEPT !.tool = "closing", !.inbox = <<>>]
                  IN  RunOK(v) /\ Like(v, w)
<1>1. w \in Run /\ LastTest \in Nat
    BY TestCount DEF RunOK
<1>2. w.thread = "watch" =>
          LET v == [w EXCEPT !.ongoing = TRUE, !.started = TRUE]
          IN  RunOK(v) /\ Like(v, w)
    BY <1>1 DEF RunOK, Like, Run
<1>3. w.thread = "watch" /\ w.tool = "gone" =>
          LET v == [w EXCEPT !.ongoing = FALSE, !.thread = "done",
                             !.started = TRUE, !.error = @ \/ ~w.started]
          IN  RunOK(v) /\ Like(v, w)
    BY <1>1 DEF RunOK, Like, Run
<1>4. w.tool = "launched" =>
          LET v == [w EXCEPT !.tool = "top", !.printed = TRUE]
          IN  RunOK(v) /\ Like(v, w)
    BY <1>1 DEF RunOK, Like, Run
<1>5. w.tool = "top" /\ w.tests < LastTest =>
          LET v == [w EXCEPT !.tool = "picked", !.tests = @ + 1]
          IN  RunOK(v) /\ Like(v, w)
  <2> SUFFICES ASSUME w.tool = "top", w.tests < LastTest
               PROVE  LET v == [w EXCEPT !.tool = "picked", !.tests = @ + 1]
                      IN  RunOK(v) /\ Like(v, w)
      OBVIOUS
  <2> DEFINE k == w.tests + 1
  <2>1. w.tests \in 0 .. LastTest
      BY <1>1 DEF Run
  <2>2. k \in 0 .. LastTest
      BY <1>1, <2>1
  <2> HIDE DEF k
  <2>3. RunOK([w EXCEPT !.tool = "picked", !.tests = k])
        /\ Like([w EXCEPT !.tool = "picked", !.tests = k], w)
      BY <1>1, <2>2 DEF RunOK, Like, Run
  <2>4. QED BY <2>3 DEF k
<1>6. w.tool = "picked" =>
          LET v == [w EXCEPT !.tool = "testing", !.exit = FALSE]
          IN  RunOK(v) /\ Like(v, w)
    BY <1>1 DEF RunOK, Like, Run
<1>7. w.tool = "ready" =>
          LET v == [w EXCEPT !.tool = "top", !.paused = TRUE]
          IN  RunOK(v) /\ Like(v, w)
    BY <1>1 DEF RunOK, Like, Run
<1>8. w.tool = "top" =>
          LET v == [w EXCEPT !.tool = "closing", !.inbox = <<>>]
          IN  RunOK(v) /\ Like(v, w)
  <2> SUFFICES ASSUME w.tool = "top"
               PROVE  LET v == [w EXCEPT !.tool = "closing", !.inbox = <<>>]
                      IN  RunOK(v) /\ Like(v, w)
      OBVIOUS
  <2> DEFINE k == <<>>
  <2>1. k \in Seq({"quit", "resume"})
      OBVIOUS
  <2> HIDE DEF k
  <2>2. RunOK([w EXCEPT !.tool = "closing", !.inbox = k])
        /\ Like([w EXCEPT !.tool = "closing", !.inbox = k], w)
      BY <1>1, <2>1 DEF RunOK, Like, Run
  <2>3. QED BY <2>2 DEF k
<1>9. w.thread = "watch" /\ env.failures # {} =>
          LET v == [w EXCEPT !.thread = "done", !.started = TRUE, !.error = TRUE]
          IN  RunOK(v) /\ Like(v, w)
    BY <1>1 DEF RunOK, Like, Run
<1>10. QED BY <1>2, <1>3, <1>4, <1>5, <1>6, <1>7, <1>8, <1>9

(* a test case ends, or a command of the operator or the controller is read *)
LEMMA TestEndEdit ==
    ASSUME NEW w, RunOK(w), w.tool = "testing", NEW t \in {"ready", "top"},
           NEW p \in BOOLEAN, NEW k \in BOOLEAN, NEW x \in BOOLEAN, NEW v,
           v = [w EXCEPT !.tool = t, !.paused = p, !.ok = k, !.exit = x]
    PROVE  RunOK(v) /\ Like(v, w)
<1>1. w \in Run
    BY DEF RunOK
<1> DEFINE u == [w EXCEPT !.tool = t, !.paused = p]
<1>2. v = [u EXCEPT !.ok = k, !.exit = x]
    OBVIOUS
<1>3. u \in Run
    BY <1>1 DEF Run
<1> HIDE DEF u
<1>4. v \in Run
    BY <1>2, <1>3 DEF Run
<1>5. /\ v.tool = t /\ v.thread = w.thread /\ v.started = w.started
      /\ v.ongoing = w.ongoing /\ v.error = w.error
      /\ v.build = w.build /\ v.late = w.late
    BY <1>1 DEF Run
<1>6. QED BY <1>4, <1>5 DEF RunOK, Like

LEMMA ReadEdit ==
    ASSUME NEW w, RunOK(w), w.inbox # <<>>, NEW p \in BOOLEAN, NEW x \in BOOLEAN,
           NEW v, v = [w EXCEPT !.inbox = Tail(@), !.paused = p, !.exit = x]
    PROVE  RunOK(v) /\ Like(v, w)
<1> DEFINE k == Tail(w.inbox)
<1>1. w \in Run /\ w.inbox \in Seq({"quit", "resume"})
    BY DEF RunOK, Run
<1>2. k \in Seq({"quit", "resume"})
    BY <1>1, HeadTailProperties
<1>3. v = [w EXCEPT !.inbox = k, !.paused = p, !.exit = x]
    OBVIOUS
<1> HIDE DEF k
<1>4. v \in Run
    BY <1>1, <1>2, <1>3 DEF Run
<1>5. /\ v.tool = w.tool /\ v.thread = w.thread /\ v.started = w.started
      /\ v.ongoing = w.ongoing /\ v.error = w.error
      /\ v.build = w.build /\ v.late = w.late
    BY <1>1, <1>3 DEF Run
<1>6. QED BY <1>4, <1>5 DEF RunOK, Like

(* a run whose tool stays: nothing changes for the controller *)
LEMMA RunKeeps ==
    ASSUME ServiceInv, NEW r \in DOMAIN runs, NEW v, RunOK(v), Like(v, runs[r]),
           runs' = [runs EXCEPT ![r] = v], UNCHANGED <<db, gw, ctl, env>>, SameBus
    PROVE  ServiceInv'
BY Still, OneRunChanged, QuietStep

LEMMA QuietRuns ==
    ASSUME ServiceInv, NEW r \in DOMAIN runs,
           \/ sees_start(r) \/ sees_prompt(r) \/ sees_eof(r) \/ next_text_case(r)
           \/ initialize(r) \/ pauses(r) \/ leaves_loop(r) \/ read_udp_cmd(r)
    PROVE  ServiceInv'
<1> DEFINE w == runs[r]
<1>1. RunOK(w)
    BY DEF ServiceInv, ServiceTypes
<1>2. UNCHANGED <<db, gw, bus, ctl, env>>
    BY DEF sees_start, sees_prompt, sees_eof, next_text_case, initialize, pauses,
           leaves_loop, read_udp_cmd
<1>3. ASSUME NEW v, RunOK(v), Like(v, w), runs' = [runs EXCEPT ![r] = v]
      PROVE  ServiceInv'
    BY <1>2, <1>3, Still, RunKeeps
<1>4. CASE sees_start(r)
  <2> DEFINE v == [w EXCEPT !.ongoing = TRUE, !.started = TRUE]
  <2>1. runs' = [runs EXCEPT ![r] = v] /\ w.thread = "watch"
      BY <1>4 DEF sees_start
  <2>2. RunOK(v) /\ Like(v, w)
      BY <1>1, <2>1, RunEdits
  <2> HIDE DEF v, w
  <2>3. QED BY <1>3, <2>1, <2>2
<1>5. CASE sees_prompt(r)
  <2> DEFINE v == [w EXCEPT !.ongoing = FALSE, !.thread = "done",
                            !.started = TRUE, !.error = @ \/ ~w.started]
  <2>1. runs' = [runs EXCEPT ![r] = v] /\ w.thread = "watch" /\ w.tool = "gone"
      BY <1>5 DEF sees_prompt
  <2>2. RunOK(v) /\ Like(v, w)
      BY <1>1, <2>1, RunEdits
  <2> HIDE DEF v, w
  <2>3. QED BY <1>3, <2>1, <2>2
<1>6. CASE next_text_case(r)
  <2> DEFINE v == [w EXCEPT !.tool = "picked", !.tests = @ + 1]
  <2>1. runs' = [runs EXCEPT ![r] = v] /\ w.tool = "top" /\ w.tests < LastTest
      BY <1>6 DEF next_text_case
  <2>2. RunOK(v) /\ Like(v, w)
      BY <1>1, <2>1, RunEdits
  <2> HIDE DEF v, w
  <2>3. QED BY <1>3, <2>1, <2>2
<1>7. CASE initialize(r)
  <2> DEFINE v == [w EXCEPT !.tool = "testing", !.exit = FALSE]
  <2>1. runs' = [runs EXCEPT ![r] = v] /\ w.tool = "picked"
      BY <1>7 DEF initialize
  <2>2. RunOK(v) /\ Like(v, w)
      BY <1>1, <2>1, RunEdits
  <2> HIDE DEF v, w
  <2>3. QED BY <1>3, <2>1, <2>2
<1>8. CASE pauses(r)
  <2> DEFINE v == [w EXCEPT !.tool = "top", !.paused = TRUE]
  <2>1. runs' = [runs EXCEPT ![r] = v] /\ w.tool = "ready"
      BY <1>8 DEF pauses
  <2>2. RunOK(v) /\ Like(v, w)
      BY <1>1, <2>1, RunEdits
  <2> HIDE DEF v, w
  <2>3. QED BY <1>3, <2>1, <2>2
<1>9. CASE leaves_loop(r)
  <2> DEFINE v == [w EXCEPT !.tool = "closing", !.inbox = <<>>]
  <2>1. runs' = [runs EXCEPT ![r] = v] /\ w.tool = "top"
      BY <1>9 DEF leaves_loop
  <2>2. RunOK(v) /\ Like(v, w)
      BY <1>1, <2>1, RunEdits
  <2> HIDE DEF v, w
  <2>3. QED BY <1>3, <2>1, <2>2
<1>10. CASE read_udp_cmd(r)
  <2> DEFINE p == w.paused /\ Head(w.inbox) \notin {"quit", "resume"}
             x == w.exit \/ Head(w.inbox) = "quit"
             v == [w EXCEPT !.inbox = Tail(@), !.paused = p, !.exit = x]
  <2>1. runs' = [runs EXCEPT ![r] = v] /\ w.inbox # <<>>
      BY <1>10 DEF read_udp_cmd
  <2>2. p \in BOOLEAN /\ x \in BOOLEAN
      OBVIOUS
  <2> HIDE DEF p, x, w
  <2>3. RunOK(v) /\ Like(v, w)
      BY <1>1, <2>1, <2>2, ReadEdit
  <2> HIDE DEF v, w
  <2>4. QED BY <1>3, <2>1, <2>3
<1>11. CASE sees_eof(r)
  <2> DEFINE v == [w EXCEPT !.thread = "done", !.started = TRUE, !.error = TRUE]
  <2>1. runs' = [runs EXCEPT ![r] = v] /\ w.thread = "watch" /\ env.failures # {}
      BY <1>11 DEF sees_eof
  <2>2. RunOK(v) /\ Like(v, w)
      BY <1>1, <2>1, RunEdits
  <2> HIDE DEF v, w
  <2>3. QED BY <1>3, <2>1, <2>2
<1>12. QED BY <1>4, <1>5, <1>6, <1>7, <1>8, <1>9, <1>10, <1>11

LEMMA TestEndsKeeps ==
    ASSUME ServiceInv, NEW r \in DOMAIN runs, NEW o,
           test_case_ends(r, o)
    PROVE  ServiceInv'
<1> DEFINE w == runs[r]
           s == Sig("test_tool_ready_for_new_build", w.build, FALSE)
<1>1. RunOK(w) /\ BusOK(bus) /\ OfferIsAtomic \in BOOLEAN
    BY ServiceAssumption DEF ServiceInv, ServiceTypes
<1> DEFINE ok == w.ok /\ o \in {"ok", "skip"}
           ready == /\ o # "skip"
                    /\ w.tests \in Mandatory .. LastTest - 1 \/ ~ok
           t == IF ready /\ ~OfferIsAtomic THEN "ready" ELSE "top"
           p == ready /\ OfferIsAtomic
           x == w.exit \/ o = "exit"
           v == [w EXCEPT !.tool = t, !.paused = p, !.ok = ok, !.exit = x]
<1>2. runs' = [runs EXCEPT ![r] = v]
    BY DEF test_case_ends
<1>3. /\ w.tool = "testing" /\ UNCHANGED <<db, gw, ctl, env>>
      /\ bus' = Append(bus, s) \/ bus' = bus
    BY DEF test_case_ends
<1>4. s \in Signals /\ s.name = "test_tool_ready_for_new_build"
    BY <1>1 DEF Sig, Signals, RunOK, Run
<1> HIDE DEF s
<1>5. SameBus
    BY <1>1, <1>3, <1>4, SentSame, Still
<1>6. t \in {"ready", "top"} /\ p \in BOOLEAN /\ ok \in BOOLEAN /\ x \in BOOLEAN
    OBVIOUS
<1> HIDE DEF t, p, ok, x, w
<1>7. RunOK(v) /\ Like(v, w)
    BY <1>1, <1>3, <1>6, TestEndEdit
<1> HIDE DEF v, w
<1>8. QED BY <1>2, <1>3, <1>5, <1>7, RunKeeps DEF v, w

LEMMA GoneRun ==
    ASSUME NEW w, RunOK(w), w.thread # "launch"
    PROVE  /\ RunOK(Gone(w)) /\ Gone(w).tool = "gone"
           /\ Gone(w).build = w.build /\ Gone(w).late = w.late
           /\ Gone(w).started = w.started /\ Gone(w).thread = w.thread
           /\ Gone(w).error = w.error
<1>1. w \in Run /\ 0 \in 0 .. LastTest
    BY TestCount DEF RunOK
<1> DEFINE k == <<>>
<1>2. k \in Seq({"quit", "resume"})
    OBVIOUS
<1> HIDE DEF k
<1> DEFINE g == [w EXCEPT !.tool = "gone", !.paused = FALSE, !.exit = FALSE,
                          !.tests = 0, !.ok = TRUE, !.inbox = k]
<1>3. Gone(w) = g
    BY DEF Gone, k
<1>4. /\ g \in Run /\ g.tool = "gone" /\ g.build = w.build /\ g.late = w.late
      /\ g.started = w.started /\ g.thread = w.thread /\ g.error = w.error
    BY <1>1, <1>2 DEF Run
<1> HIDE DEF g
<1>5. RunOK(g)
    BY <1>4 DEF RunOK
<1>6. QED BY <1>3, <1>4, <1>5

(* The tool of run r is gone: it said so, or something failed. *)
LEMMA ToolEnds ==
    ASSUME ServiceInv, NEW r \in DOMAIN runs, NEW v, RunOK(v),
           v.tool = "gone", v.thread # "launch", runs[r].thread # "launch",
           v.build = runs[r].build, v.late = runs[r].late,
           runs[r].started => v.started,
           runs' = [runs EXCEPT ![r] = v], UNCHANGED <<db, gw, ctl, env>>,
           \/ bus' = bus /\ env.failures # {}
           \/ /\ Alive(r)
              /\ bus' = Append(bus, Sig("test_tool_shutdown", runs[r].build, FALSE))
    PROVE  ServiceInv'
<1> DEFINE b == runs[r].build
           s == Sig("test_tool_shutdown", b, FALSE)
<1>1. BusOK(bus) /\ ServiceTypes /\ RunOK(runs[r]) /\ b \in Builds
    BY DEF ServiceInv, ServiceTypes, RunOK, Run
<1>2. /\ DOMAIN runs' = DOMAIN runs /\ runs' = [q \in DOMAIN runs' |-> runs'[q]]
      /\ runs'[r] = v
      /\ \A q \in DOMAIN runs : q # r => runs'[q] = runs[q]
    OBVIOUS
<1>3. \A q \in DOMAIN runs : RunOK(runs'[q]) /\ runs'[q] \in Run
    BY <1>1, <1>2 DEF ServiceTypes, RunOK
<1>4. runs' \in Seq(Run) /\ Len(runs') = Len(runs)
    BY <1>1, <1>2, <1>3, ChangedRuns
<1>5. /\ s \in Signals /\ s.name = "test_tool_shutdown" /\ s.flag = FALSE
      /\ \A c : s = Sig("test_tool_shutdown", c, FALSE) => c = b
  <2>1. s \in Signals /\ s.name = "test_tool_shutdown" /\ s.flag = FALSE
        /\ s.build = b
      BY <1>1 DEF Sig, Signals
  <2>2. \A c : Sig("test_tool_shutdown", c, FALSE).build = c
      BY DEF Sig
  <2>3. QED BY <2>1, <2>2
<1>6. /\ BusOK(bus')
      /\ \A c : Announces(bus, c) => Announces(bus', c)
      /\ \A c : Announces(bus', c) => Announces(bus, c) \/ (Alive(r) /\ c = b)
      /\ env.failures = {} => Announces(bus', b)
  <2>1. CASE bus' = bus /\ env.failures # {}
      BY <1>1, <2>1
  <2>2. CASE Alive(r) /\ bus' = Append(bus, s)
    <3> HIDE DEF s
    <3>1. /\ BusOK(bus')
          /\ \A c : Announces(bus', c) <=>
                 Announces(bus, c) \/ s = Sig("test_tool_shutdown", c, FALSE)
        BY <1>1, <1>5, <2>2, SignalSent
    <3>2. s = Sig("test_tool_shutdown", b, FALSE)
        BY DEF s
    <3>3. QED BY <1>5, <2>2, <3>1, <3>2
  <2>3. QED BY <2>1, <2>2
<1> HIDE DEF s
<1>7. \A q \in DOMAIN runs :
          /\ runs'[q].build = runs[q].build /\ runs'[q].late = runs[q].late
          /\ runs[q].started => runs'[q].started
          /\ (runs'[q].thread = "launch" <=> runs[q].thread = "launch")
          /\ Busy(q)' => q # r /\ Busy(q)
          /\ Alive(q)' => Alive(q)
    BY <1>2 DEF Busy, Alive
<1>8. ctl.handler # 0 => ctl.handler \in DOMAIN runs
    BY <1>1 DEF ServiceTypes
<1>9. ServiceTypes'
    BY <1>1, <1>2, <1>3, <1>4, <1>6 DEF ServiceTypes, GatewayOK
<1>10. OneLaunch'
    BY <1>2, <1>7, <1>8 DEF ServiceInv, OneLaunch
<1>11. OneTool'
  <2> SUFFICES ASSUME \A q \in DOMAIN runs' : ~runs'[q].late,
                      NEW q \in DOMAIN runs', Busy(q)'
               PROVE  /\ ctl'.handler = q /\ ctl'.build = runs'[q].build
                      /\ ctl'.pc \in {"idle", "wait"}
                      /\ ~Announces(bus', runs'[q].build)
                      /\ \A z \in DOMAIN runs' :
                             Alive(z)' /\ runs'[z].build = runs'[q].build => z = q
      BY DEF OneTool
  <2>1. q \in DOMAIN runs /\ q # r /\ Busy(q) /\ \A x \in DOMAIN runs : ~runs[x].late
      BY <1>2, <1>7
  <2>2. /\ ctl.handler = q /\ ctl.build = runs[q].build /\ ctl.pc \in {"idle", "wait"}
        /\ ~Announces(bus, runs[q].build)
        /\ \A z \in DOMAIN runs : Alive(z) /\ runs[z].build = runs[q].build => z = q
      BY <2>1 DEF ServiceInv, OneTool
  <2>3. ~Announces(bus', runs[q].build)
      BY <1>6, <2>1, <2>2
  <2>4. QED BY <1>2, <1>7, <2>1, <2>2, <2>3
<1>12. EndAnnounced'
  <2>1. ctl.handler # 0 /\ ctl.handler # r => runs'[ctl.handler] = runs[ctl.handler]
      BY <1>2, <1>8
  <2>2. ctl.handler # 0 => runs'[ctl.handler].build = runs[ctl.handler].build
      BY <1>7, <1>8
  <2>3. env.failures = {} => \A q \in DOMAIN runs' :
            runs'[q].error => runs'[q].tool = "gone"
      BY <1>2 DEF ServiceInv, EndAnnounced
  <2>4. QED BY <1>6, <2>1, <2>2, <2>3 DEF ServiceInv, EndAnnounced
<1>13. QED BY <1>9, <1>10, <1>11, <1>12 DEF ServiceInv

LEMMA EndingRuns ==
    ASSUME ServiceInv, NEW r \in DOMAIN runs,
           \/ tool_opens(r) \/ quit_program(r) \/ tool_dies(r)
    PROVE  ServiceInv'
<1> DEFINE w == runs[r]
           s == Sig("test_tool_shutdown", runs[r].build, FALSE)
           u == [w EXCEPT !.tool = "top", !.printed = TRUE]
<1>1. RunOK(w)
    BY DEF ServiceInv, ServiceTypes
<1>2. Alive(r) => w.thread # "launch"
    BY <1>1 DEF Alive, RunOK
<1>3. ASSUME Alive(r), runs' = [runs EXCEPT ![r] = Gone(w)],
             UNCHANGED <<db, gw, ctl, env>>,
             (bus' = bus /\ env.failures # {}) \/ bus' = Append(bus, s)
      PROVE  ServiceInv'
  <2> DEFINE v == Gone(w)
  <2>1. /\ RunOK(v) /\ v.tool = "gone" /\ v.thread = w.thread
        /\ v.build = w.build /\ v.late = w.late /\ v.started = w.started
      BY <1>1, <1>2, <1>3, GoneRun
  <2>2. runs' = [runs EXCEPT ![r] = v]
      BY <1>3
  <2> HIDE DEF v
  <2>3. QED BY <1>2, <1>3, <2>1, <2>2, ToolEnds
<1>4. CASE tool_dies(r)
    BY <1>3, <1>4 DEF tool_dies
<1>5. CASE quit_program(r)
  <2>1. Alive(r)
      BY <1>5 DEF quit_program, Alive
  <2>2. /\ runs' = [runs EXCEPT ![r] = Gone(w)] /\ UNCHANGED <<db, gw, ctl, env>>
        /\ bus' = Append(bus, s)
      BY <1>5 DEF quit_program
  <2>3. QED BY <1>3, <2>1, <2>2
<1>6. CASE tool_opens(r)
  <2>1. Alive(r) /\ UNCHANGED <<db, gw, ctl, env>> /\ w.tool = "launched"
      BY <1>6 DEF tool_opens, Alive
  <2>2. \/ runs' = [runs EXCEPT ![r] = Gone(w)] /\ bus' = Append(bus, s)
        \/ runs' = [runs EXCEPT ![r] = u] /\ bus' = bus
      BY <1>6 DEF tool_opens
  <2>3. CASE runs' = [runs EXCEPT ![r] = u] /\ bus' = bus
    <3>1. RunOK(u) /\ Like(u, w)
        BY <1>1, <2>1, RunEdits
    <3> HIDE DEF u
    <3>2. QED BY <2>1, <2>3, <3>1, Still, RunKeeps
  <2>4. QED BY <1>3, <2>1, <2>2, <2>3
<1>7. QED BY <1>4, <1>5, <1>6

(* The run that launches is the one the controller waits for; what it      *)
(* kills is nothing the controller knows of.                               *)
LEMMA LaunchKeeps ==
    ASSUME ServiceInv, NEW r \in DOMAIN runs, launch(r) \/ launch_dies(r)
    PROVE  ServiceInv'
<1>1. PICK v :
      /\ runs[r].thread = "launch" /\ UNCHANGED <<db, gw, bus, ctl, env>>
      /\ DOMAIN runs' = DOMAIN runs /\ runs' = [q \in DOMAIN runs' |-> runs'[q]]
      /\ runs'[r] = v
      /\ \/ v = [runs[r] EXCEPT !.thread = "watch", !.tool = "launched"]
         \/ v = [runs[r] EXCEPT !.thread = "done"]
      /\ \A q \in DOMAIN runs : q # r =>
             \/ runs'[q] = runs[q]
             \/ Alive(q) /\ runs'[q] = Gone(runs[q])
  <2>1. CASE launch(r)
    <3> DEFINE v == [runs[r] EXCEPT !.thread = "watch", !.tool = "launched"]
    <3>1. PICK killed \in BOOLEAN : Cleans(r, killed, v)
        BY <2>1 DEF launch
    <3>2. v = [runs[r] EXCEPT !.thread = "watch", !.tool = "launched"]
        OBVIOUS
    <3> HIDE DEF v
    <3>3. QED BY <3>1, <3>2 DEF Cleans
  <2>2. CASE launch_dies(r)
    <3> DEFINE v == [runs[r] EXCEPT !.thread = "done"]
    <3>1. PICK killed \in BOOLEAN : Cleans(r, killed, v)
        BY <2>2 DEF launch_dies
    <3>2. v = [runs[r] EXCEPT !.thread = "done"]
        OBVIOUS
    <3> HIDE DEF v
    <3>3. QED BY <3>1, <3>2 DEF Cleans
  <2>3. QED BY <2>1, <2>2
<1>2. /\ ctl.pc = "wait" /\ ctl.handler = r /\ ServiceTypes
      /\ \A q \in DOMAIN runs : RunOK(runs[q])
      /\ \A q \in DOMAIN runs : q # r => runs[q].thread # "launch"
    BY <1>1 DEF ServiceInv, OneLaunch, ServiceTypes
<1>3. /\ RunOK(v) /\ v.build = runs[r].build /\ v.late = runs[r].late
      /\ v.tool # "gone" /\ v.thread # "launch" /\ ~v.error
  <2> DEFINE w == runs[r]
  <2>1. RunOK(w) /\ w \in Run /\ w.thread = "launch" /\ w.tool = "off" /\ ~w.started
        /\ ~w.error
      BY <1>1, <1>2 DEF RunOK
  <2>2. \/ v = [w EXCEPT !.thread = "watch", !.tool = "launched"]
        \/ v = [w EXCEPT !.thread = "done"]
      BY <1>1
  <2> HIDE DEF w
  <2>3. CASE v = [w EXCEPT !.thread = "watch", !.tool = "launched"]
    <3>1. /\ v \in Run /\ v.build = w.build /\ v.late = w.late /\ v.tool = "launched"
          /\ v.thread = "watch" /\ v.error = w.error /\ v.started = w.started
        BY <2>1, <2>3 DEF Run
    <3>2. QED BY <2>1, <3>1 DEF RunOK, w
  <2>4. CASE v = [w EXCEPT !.thread = "done"]
    <3>1. /\ v \in Run /\ v.build = w.build /\ v.late = w.late /\ v.tool = "off"
          /\ v.thread = "done" /\ v.error = w.error /\ v.started = w.started
        BY <2>1, <2>4 DEF Run
    <3>2. QED BY <2>1, <3>1 DEF RunOK, w
  <2>5. QED BY <2>2, <2>3, <2>4
<1>4. \A q \in DOMAIN runs : q # r =>
          /\ RunOK(runs'[q]) /\ runs'[q].build = runs[q].build
          /\ runs'[q].late = runs[q].late /\ runs'[q].thread # "launch"
          /\ (Busy(q)' => Busy(q)) /\ (Alive(q)' => Alive(q))
          /\ runs'[q].error = runs[q].error
          /\ runs[q].tool = "gone" => runs'[q].tool = "gone"
  <2> SUFFICES ASSUME NEW q \in DOMAIN runs, q # r
               PROVE  /\ RunOK(runs'[q]) /\ runs'[q].build = runs[q].build
                      /\ runs'[q].late = runs[q].late /\ runs'[q].thread # "launch"
                      /\ (Busy(q)' => Busy(q)) /\ (Alive(q)' => Alive(q))
                      /\ runs'[q].error = runs[q].error
                      /\ runs[q].tool = "gone" => runs'[q].tool = "gone"
      OBVIOUS
  <2>1. CASE runs'[q] = runs[q]
      BY <1>2, <2>1 DEF Busy, Alive
  <2>2. CASE Alive(q) /\ runs'[q] = Gone(runs[q])
    <3> DEFINE g == Gone(runs[q])
    <3>1. RunOK(runs[q]) /\ runs[q].thread # "launch"
        BY <1>2
    <3>2. /\ RunOK(g) /\ g.tool = "gone" /\ g.build = runs[q].build
          /\ g.late = runs[q].late /\ g.thread = runs[q].thread
          /\ g.error = runs[q].error
        BY <3>1, GoneRun
    <3> HIDE DEF g
    <3>3. runs'[q] = g
        BY <2>2 DEF g
    <3>4. QED BY <2>2, <3>1, <3>2, <3>3 DEF Busy, Alive
  <2>3. QED BY <1>1, <2>1, <2>2
<1>5. \A q \in DOMAIN runs :
          /\ RunOK(runs'[q]) /\ runs'[q] \in Run
          /\ runs'[q].build = runs[q].build /\ runs'[q].late = runs[q].late
          /\ runs'[q].thread # "launch" /\ (Busy(q)' => Busy(q))
  <2>1. Busy(r)
      BY <1>1 DEF Busy
  <2>2. QED BY <1>1, <1>3, <1>4, <2>1 DEF RunOK
<1>6. runs' \in Seq(Run) /\ Len(runs') = Len(runs)
    BY <1>1, <1>2, <1>5, ChangedRuns
<1>7. ServiceTypes'
    BY <1>1, <1>2, <1>5, <1>6 DEF ServiceTypes, GatewayOK
<1>8. OneLaunch'
    BY <1>1, <1>2, <1>5 DEF ServiceInv, OneLaunch
<1>9. OneTool'
  <2> SUFFICES ASSUME \A q \in DOMAIN runs' : ~runs'[q].late,
                      NEW q \in DOMAIN runs', Busy(q)'
               PROVE  /\ ctl'.handler = q /\ ctl'.build = runs'[q].build
                      /\ ctl'.pc \in {"idle", "wait"}
                      /\ ~Announces(bus', runs'[q].build)
                      /\ \A z \in DOMAIN runs' :
                             Alive(z)' /\ runs'[z].build = runs'[q].build => z = q
      BY DEF OneTool
  <2>1. q \in DOMAIN runs /\ Busy(q) /\ \A x \in DOMAIN runs : ~runs[x].late
      BY <1>1, <1>5
  <2>2. /\ ctl.handler = q /\ ctl.build = runs[q].build /\ ctl.pc \in {"idle", "wait"}
        /\ ~Announces(bus, runs[q].build)
        /\ \A z \in DOMAIN runs : Alive(z) /\ runs[z].build = runs[q].build => z = q
      BY <2>1 DEF ServiceInv, OneTool
  <2>3. ASSUME NEW z \in DOMAIN runs', Alive(z)', runs'[z].build = runs'[q].build
        PROVE  z = q
    <3>1. z # r => Alive(z) /\ runs[z].build = runs[q].build
        BY <1>1, <1>4, <1>5, <2>1, <2>3
    <3>2. q = r
        BY <1>2, <2>2
    <3>3. QED BY <1>1, <2>2, <2>3, <3>1, <3>2
  <2>4. QED BY <1>1, <1>5, <2>1, <2>2, <2>3
<1>10. EndAnnounced'
  <2>1. runs'[ctl.handler].tool # "gone"
      BY <1>1, <1>2, <1>3
  <2>2. env.failures = {} => \A q \in DOMAIN runs' :
            runs'[q].error => runs'[q].tool = "gone"
      BY <1>1, <1>3, <1>4 DEF ServiceInv, EndAnnounced
  <2>3. QED BY <1>1, <1>2, <2>1, <2>2 DEF ServiceInv, EndAnnounced
<1>11. QED BY <1>7, <1>8, <1>9, <1>10 DEF ServiceInv

----------------------------------------------------------------------------
(* Controller, handler threads and tools are always as ServiceInv says, *)
(* for any lists of triggers and whatever breaks.                       *)
THEOREM ServiceInvHolds == ServiceSpec => []ServiceInv
<1>1. ServiceInit => ServiceInv
  <2> SUFFICES ASSUME ServiceInit PROVE ServiceInv
      OBVIOUS
  <2>1. /\ db = EmptyDB /\ bus = <<>> /\ runs = <<>> /\ env \in Scenario
        /\ gw = [b \in Builds |->
                    [t \in Triggers |->
                        [at |-> 1, was_pending |-> FALSE, dropped |-> {}]]]
        /\ ctl = [pc |-> "idle", paused |-> TRUE, build |-> None, high |-> FALSE,
                  stoppable |-> FALSE, handler |-> 0]
      BY ServiceAssumption DEF ServiceInit
  <2>2. RecordsThere(db) /\ \A b : ~Ongoing(db, b)
      BY <2>1 DEF RecordsThere, Ongoing, Known, EmptyDB, NoEntries
  <2>3. GatewayOK /\ BusOK(bus)
    <3> DEFINE g == [at |-> 1, was_pending |-> FALSE, dropped |-> {}]
    <3>1. DOMAIN g = {"at", "was_pending", "dropped"} /\ g.was_pending \in BOOLEAN
        OBVIOUS
    <3> HIDE DEF g
    <3>2. gw = [b \in Builds |-> [t \in Triggers |-> g]]
        BY <2>1 DEF g
    <3>3. GatewayOK
        BY <3>1, <3>2 DEF GatewayOK
    <3>4. BusOK(bus)
        BY <2>1 DEF BusOK
    <3>5. QED BY <3>3, <3>4
  <2>4. ctl \in Controller /\ ctl.pc = "idle" /\ ctl.handler = 0
      BY <2>1 DEF Controller
  <2>5. runs \in Seq(Run) /\ DOMAIN runs = {} /\ Len(runs) = 0
      BY <2>1
  <2>6. QED
      BY <2>1, <2>2, <2>3, <2>4, <2>5
         DEF ServiceInv, ServiceTypes, OneLaunch, OneTool, EndAnnounced
<1>2. ASSUME ServiceInv, [ServiceNext]_serviceVars PROVE ServiceInv'
  <2>1. CASE UNCHANGED serviceVars
      BY <1>2, <2>1, Still, QuietStep DEF serviceVars
  <2>2. ASSUME NEW b \in Builds, NEW t \in env.triggers, Handle(b, t)
        PROVE  ServiceInv'
    <3>1. t \in Triggers
        BY <1>2, <2>2 DEF ServiceInv, ServiceTypes, Scenario
    <3>2. QED BY <1>2, <2>2, <3>1, HandleKeeps
  <2>3. ASSUME NEW c \in env.commands, NEW b \in Builds \cup {None}, Command(c, b)
        PROVE  ServiceInv'
      BY <1>2, <2>3, CommandKeeps
  <2>4. CASE ControllerStep
      BY <1>2, <2>4, CheckKeeps, GetBuildKeeps, PrepareKeeps, WaitStartKeeps,
         StartFailedKeeps, QuietController, ShutdownKeeps, ForceBuildKeeps
         DEF ControllerStep
  <2>5. CASE prepare_fails
      BY <1>2, <2>5, PrepareFailsKeeps
  <2>6. ASSUME NEW r \in DOMAIN runs, RunStep(r) \/ read_udp_cmd(r)
                       \/ launch_dies(r) \/ sees_eof(r) \/ tool_dies(r)
        PROVE  ServiceInv'
      BY <1>2, <2>6, LaunchKeeps, QuietRuns, EndingRuns, TestEndsKeeps DEF RunStep
  <2>7. QED BY <1>2, <2>1, <2>2, <2>3, <2>4, <2>5, <2>6 DEF ServiceNext
<1>3. QED BY <1>1, <1>2, PTL DEF ServiceSpec

(* For any builds, triggers, trigger configuration, suite and scenario, and *)
(* whatever fails: run_clean_test_environment finds no HSS_rtc to kill but  *)
(* one whose channel broke, unless a build was tested again before the      *)
(* controller had handled the end of its last test.                         *)
THEOREM NoTestIsKilled == ServiceSpec => []NoTestKilled
<1>1. ServiceInv => NoTestKilled
  <2> SUFFICES ASSUME ServiceInv, NEW r \in DOMAIN runs, runs[r].thread = "launch",
                      \A q \in DOMAIN runs : ~runs[q].late,
                      NEW q \in DOMAIN runs, Alive(q), ~runs[q].error
               PROVE  FALSE
      BY DEF NoTestKilled
  <2>1. Busy(q) /\ Busy(r)
      BY DEF Busy
  <2>2. q = r
      BY <2>1 DEF ServiceInv, OneTool
  <2>3. QED BY <2>2 DEF ServiceInv, ServiceTypes, RunOK, Alive
<1>2. QED BY <1>1, ServiceInvHolds, PTL

(* For any such service in which nothing breaks, whatever the operator and *)
(* the triggers do: a build in TEST_ONGOING is the one the controller has  *)
(* under test or its result is on the bus, so that no status protects a    *)
(* build from clean_build for ever.                                        *)
THEOREM OngoingStaysReal == ServiceSpec => []OngoingIsReal
<1>1. ServiceInv => OngoingIsReal
  <2> SUFFICES ASSUME ServiceInv, NEW b \in Known(db),
                      db.build_info[b].status = "TEST_ONGOING", env.failures = {}
               PROVE  (ctl.build = b /\ ctl.handler # 0) \/ ShutdownOnTheWay(b)
      BY DEF OngoingIsReal
  <2>1. b \in Builds /\ Ongoing(db, b)
      BY DEF ServiceInv, ServiceTypes, RecordsThere, Ongoing
  <2>2. (ctl.build = b /\ ctl.handler # 0) \/ Announces(bus, b)
      BY <2>1 DEF ServiceInv, EndAnnounced
  <2>3. QED BY <2>2 DEF Announces, ShutdownOnTheWay
<1>2. QED BY <1>1, ServiceInvHolds, PTL

----------------------------------------------------------------------------
(* The least-number principle, from the well-foundedness of < on Nat. *)
LEMMA Smallest ==
    ASSUME NEW N, N \subseteq Nat, N # {}
    PROVE  \E x \in N : \A y \in N : x <= y
<1> DEFINE R == {ss \in Nat \X Nat : ss[1] < ss[2]}
<1>1. OpToRel(<, Nat) = R
    BY Zenon DEF OpToRel
<1>2. IsWellFoundedOn(R, Nat)
    BY <1>1, NatLessThanWellFounded, Zenon
<1>3. \A x, y \in Nat : <<y, x>> \in R <=> y < x
    OBVIOUS
<1> HIDE DEF R
<1>4. PICK x \in N : \A y \in N : ~(<<y, x>> \in R)
    BY <1>2, WFMin, Zenon
<1>5. \A y \in N : ~(y < x)
    BY <1>3, <1>4
<1>6. QED BY <1>5

LEMMA Largest ==
    ASSUME NEW N, N \subseteq Nat, N # {}, IsFiniteSet(N)
    PROVE  \E x \in N : \A y \in N : y <= x
<1> DEFINE n == Cardinality(N)
<1>1. n \in Nat /\ n # 0 /\ ExistsBijection(1 .. n, N)
    BY FS_CardinalityType, FS_EmptySet
<1> HIDE DEF n
<1>2. PICK f \in [1 .. n -> N] : \A y \in N : \E i \in 1 .. n : f[i] = y
    BY <1>1 DEF ExistsBijection, Bijection, Surjection
<1>3. \A i \in 1 .. n : f[i] \in Nat
    BY <1>2
<1> DEFINE Top(k) == \E i \in 1 .. k : \A j \in 1 .. k : f[j] <= f[i]
           Bad == {k \in 1 .. n : ~Top(k)}
<1>4. Bad \subseteq 1 .. n /\ 1 .. n \subseteq Nat
    BY <1>1
<1>5. ASSUME Bad # {} PROVE FALSE
  <2>1. PICK k \in Bad : \A j \in Bad : k <= j
      BY <1>4, <1>5, Smallest
  <2>2. k \in 1 .. n /\ ~Top(k)
      BY <2>1
  <2> HIDE DEF Bad
  <2>3. k # 1
      BY <1>1, <1>3, <2>2
  <2>4. k - 1 \in 1 .. n /\ k - 1 < k /\ k \in Nat /\ n \in Nat
      BY <1>1, <2>2, <2>3
  <2>5. k - 1 \notin Bad
      BY <1>4, <2>1, <2>4
  <2>6. Top(k - 1)
      BY <2>4, <2>5 DEF Bad
  <2>7. PICK i \in 1 .. (k - 1) : \A j \in 1 .. (k - 1) : f[j] <= f[i]
      BY <2>6
  <2>8. \A j \in 1 .. k : j = k \/ j \in 1 .. (k - 1)
      BY <2>4
  <2>9. /\ i \in 1 .. k /\ k \in 1 .. k
        /\ i \in 1 .. n /\ \A j \in 1 .. (k - 1) : j \in 1 .. n
      BY <2>4, <2>7
  <2>10. f[i] \in Nat /\ f[k] \in Nat /\ \A j \in 1 .. (k - 1) : f[j] \in Nat
      BY <1>3, <2>2, <2>9
  <2>11. CASE f[k] <= f[i]
      BY <2>2, <2>7, <2>8, <2>9, <2>11
  <2>12. CASE f[i] <= f[k]
    <3>1. \A j \in 1 .. (k - 1) : f[j] <= f[k]
        BY <2>7, <2>10, <2>12
    <3>2. f[k] <= f[k]
        BY <2>10
    <3>3. QED BY <2>2, <2>8, <2>9, <3>1, <3>2
  <2>13. QED BY <2>10, <2>11, <2>12
<1>6. n \in 1 .. n
    BY <1>1
<1>7. Top(n)
    BY <1>5, <1>6
<1>8. PICK i \in 1 .. n : \A j \in 1 .. n : f[j] <= f[i]
    BY <1>7
<1>9. QED BY <1>2, <1>8

LEMMA MembersAppend ==
    ASSUME NEW s \in Seq(Builds), NEW b \in Builds
    PROVE  Members(Append(s, b)) = Members(s) \cup {b}
<1>1. /\ Len(s) \in Nat /\ DOMAIN s = 1 .. Len(s)
      /\ DOMAIN Append(s, b) = 1 .. (Len(s) + 1)
      /\ Append(s, b)[Len(s) + 1] = b
      /\ \A i \in 1 .. Len(s) : Append(s, b)[i] = s[i]
    OBVIOUS
<1>2. /\ \A i \in 1 .. (Len(s) + 1) : i = Len(s) + 1 \/ i \in 1 .. Len(s)
      /\ \A i \in 1 .. Len(s) : i \in 1 .. (Len(s) + 1)
      /\ Len(s) + 1 \in 1 .. (Len(s) + 1)
    BY <1>1
<1>3. QED BY <1>1, <1>2 DEF Members

(* clean_build takes the builds of T out of a pending list. *)
LEMMA RemainingQueue ==
    ASSUME NEW p, NEW K, NEW q, QueueOK(q, p, K), NEW T
    PROVE  /\ QueueOK(Remaining(q, T), p, K)
           /\ Members(Remaining(q, T)) = Members(q) \ T
<1>1. q \in Seq(Builds) /\ Len(q) \in Nat /\ DOMAIN q = 1 .. Len(q)
    BY DEF QueueOK
<1> DEFINE n == Len(q)
           next(f, i) == IF i = 0 THEN <<>>
                         ELSE IF q[i] \in T THEN f[i - 1] ELSE Append(f[i - 1], q[i])
           kept[i \in 0 .. Len(q)] ==
               IF i = 0 THEN <<>>
               ELSE IF q[i] \in T THEN kept[i - 1] ELSE Append(kept[i - 1], q[i])
<1>2. Remaining(q, T) = kept[n]
    BY DEF Remaining
<1>3. kept = CHOOSE f : f = [i \in 0 .. n |-> next(f, i)]
    BY DEF kept
<1> HIDE DEF kept
<1> DEFINE Upto(k) == \E f : f = [i \in 0 .. k |-> next(f, i)]
           Short == {k \in 0 .. n : ~Upto(k)}
<1>4. Short \subseteq Nat
    BY <1>1
<1>5. ASSUME Short # {} PROVE FALSE
  <2>1. PICK k \in Short : \A j \in Short : k <= j
      BY <1>4, <1>5, Smallest
  <2>2. k \in 0 .. n /\ ~Upto(k)
      BY <2>1
  <2>3. k # 0
    <3> DEFINE f == [i \in 0 .. 0 |-> <<>>]
    <3>1. f = [i \in 0 .. 0 |-> next(f, i)]
        OBVIOUS
    <3> HIDE DEF f
    <3>2. Upto(0)
        BY <3>1
    <3>3. QED BY <2>2, <3>2
  <2>4. k - 1 \in 0 .. n /\ k \in Nat /\ k - 1 < k
      BY <1>1, <2>2, <2>3
  <2> HIDE DEF Short
  <2>5. k - 1 \notin Short
      BY <1>4, <2>1, <2>4
  <2>6. Upto(k - 1)
      BY <2>4, <2>5 DEF Short
  <2>7. PICK f : f = [i \in 0 .. (k - 1) |-> next(f, i)]
      BY <2>6
  <2> DEFINE g == [i \in 0 .. k |-> IF i = k THEN next(f, k) ELSE f[i]]
  <2>8. \A i \in 0 .. k : i = k \/ i \in 0 .. (k - 1)
      BY <2>4
  <2> HIDE DEF next
  <2>9. \A i \in 0 .. (k - 1) : f[i] = next(f, i)
      BY <2>7
  <2>10. \A i \in 0 .. (k - 1) : i \in 0 .. k /\ i # k /\ (i # 0 => i - 1 \in 0 .. (k - 1))
      BY <2>4
  <2>11. \A i \in 0 .. (k - 1) : g[i] = f[i]
      BY <2>10
  <2>12. k \in 0 .. k /\ k - 1 \in 0 .. (k - 1) /\ g[k] = next(f, k)
      BY <2>3, <2>4
  <2>13. DOMAIN g = 0 .. k /\ g = [i \in 0 .. k |-> g[i]]
      OBVIOUS
  <2> HIDE DEF g
  <2>14. next(f, k) = next(g, k)
      BY <2>11, <2>12 DEF next
  <2>15. \A i \in 0 .. (k - 1) : next(f, i) = next(g, i)
      BY <2>10, <2>11 DEF next
  <2>16. \A i \in 0 .. k : g[i] = next(g, i)
      BY <2>8, <2>9, <2>11, <2>12, <2>14, <2>15
  <2>17. g = [i \in 0 .. k |-> next(g, i)]
      BY <2>13, <2>16
  <2>18. QED BY <2>2, <2>17
<1>6. Upto(n)
    BY <1>1, <1>5
<1>7. kept = [i \in 0 .. n |-> next(kept, i)]
    BY <1>3, <1>6
<1> HIDE DEF next
<1>8. \A i \in 0 .. n : kept[i] = next(kept, i)
    BY <1>7
<1>9. /\ kept[0] = <<>>
      /\ \A i \in 1 .. n :
             kept[i] = IF q[i] \in T THEN kept[i - 1] ELSE Append(kept[i - 1], q[i])
    BY <1>1, <1>8 DEF next
<1> DEFINE From(i) == {q[j] : j \in 1 .. i} \ T
           Fine(i) == QueueOK(kept[i], p, K) /\ Members(kept[i]) = From(i)
           Wrong == {i \in 0 .. n : ~Fine(i)}
<1>10. Fine(0)
    BY <1>9, EmptyQueue DEF Members
<1>11. ASSUME NEW i \in 1 .. n, Fine(i - 1) PROVE Fine(i)
  <2> DEFINE s == kept[i - 1]
  <2>1. /\ i \in DOMAIN q /\ i \in Nat
        /\ \A j \in 1 .. i : j = i \/ j \in 1 .. (i - 1)
        /\ \A j \in 1 .. (i - 1) : j \in 1 .. i /\ j \in DOMAIN q /\ j # i
        /\ i \in 1 .. i
      BY <1>1
  <2>2. {q[j] : j \in 1 .. i} = {q[j] : j \in 1 .. (i - 1)} \cup {q[i]}
      BY <2>1
  <2>3. CASE q[i] \in T
    <3>1. kept[i] = s
        BY <1>9, <2>3
    <3>2. QED BY <1>11, <2>2, <2>3, <3>1
  <2>4. CASE q[i] \notin T
    <3>1. kept[i] = Append(s, q[i])
        BY <1>9, <2>4
    <3>2. q[i] \notin {q[j] : j \in 1 .. (i - 1)}
        BY <2>1 DEF QueueOK
    <3>3. q[i] \in K /\ ProjectOf[q[i]] = p /\ q[i] \in Builds
        BY <1>1, <2>1 DEF QueueOK
    <3>4. QueueOK(s, p, K) /\ q[i] \notin Members(s) /\ s \in Seq(Builds)
        BY <1>11, <3>2 DEF QueueOK
    <3> HIDE DEF s
    <3>5. QueueOK(Append(s, q[i]), p, K)
        BY <3>3, <3>4, AppendQueue
    <3>6. Members(Append(s, q[i])) = Members(s) \cup {q[i]}
        BY <3>3, <3>4, MembersAppend
    <3>7. QED BY <1>11, <2>2, <2>4, <3>1, <3>5, <3>6 DEF s
  <2>5. QED BY <2>3, <2>4
<1>12. ASSUME Wrong # {} PROVE FALSE
  <2>1. Wrong \subseteq Nat
      BY <1>1
  <2>2. PICK k \in Wrong : \A j \in Wrong : k <= j
      BY <1>12, <2>1, Smallest
  <2> HIDE DEF Fine
  <2>3. k \in 0 .. n /\ ~Fine(k)
      BY <2>2
  <2>4. k \in 1 .. n /\ k - 1 \in 0 .. n /\ k - 1 \notin Wrong
      BY <1>1, <1>10, <2>2, <2>3
  <2>5. Fine(k - 1)
      BY <2>4
  <2>6. QED BY <1>11, <2>3, <2>4, <2>5
<1> HIDE DEF Fine
<1>13. Fine(n)
    BY <1>1, <1>12
<1> USE DEF Fine
<1>14. {q[j] : j \in 1 .. n} = Members(q)
    BY <1>1 DEF Members
<1>15. QED BY <1>2, <1>13, <1>14

LEMMA ConcatMembers ==
    ASSUME NEW u \in Seq(Builds), NEW v \in Seq(Builds)
    PROVE  Members(u \o v) = Members(u) \cup Members(v)
<1>1. /\ Len(u) \in Nat /\ DOMAIN u = 1 .. Len(u)
      /\ Len(v) \in Nat /\ DOMAIN v = 1 .. Len(v)
      /\ DOMAIN (u \o v) = 1 .. (Len(u) + Len(v))
      /\ \A i \in 1 .. Len(u) : (u \o v)[i] = u[i]
      /\ \A i \in (Len(u) + 1) .. (Len(u) + Len(v)) : (u \o v)[i] = v[i - Len(u)]
    BY ConcatProperties
<1>2. /\ \A i \in 1 .. (Len(u) + Len(v)) :
             i \in 1 .. Len(u)
             \/ (i \in (Len(u) + 1) .. (Len(u) + Len(v)) /\ i - Len(u) \in 1 .. Len(v))
      /\ \A i \in 1 .. Len(u) : i \in 1 .. (Len(u) + Len(v))
      /\ \A j \in 1 .. Len(v) :
             /\ j + Len(u) \in (Len(u) + 1) .. (Len(u) + Len(v))
             /\ j + Len(u) \in 1 .. (Len(u) + Len(v))
             /\ (j + Len(u)) - Len(u) = j
    BY <1>1
<1> DEFINE w == u \o v
<1> HIDE DEF w
<1>3. /\ DOMAIN w = 1 .. (Len(u) + Len(v))
      /\ \A i \in 1 .. Len(u) : w[i] = u[i]
      /\ \A i \in (Len(u) + 1) .. (Len(u) + Len(v)) : w[i] = v[i - Len(u)]
    BY <1>1 DEF w
<1>4. Members(w) \subseteq Members(u) \cup Members(v)
    BY <1>1, <1>2, <1>3 DEF Members
<1>5. Members(u) \subseteq Members(w)
    BY <1>1, <1>2, <1>3 DEF Members
<1>6. ASSUME NEW j \in 1 .. Len(v) PROVE v[j] \in Members(w)
  <2>1. w[j + Len(u)] = v[j] /\ j + Len(u) \in DOMAIN w
      BY <1>2, <1>3
  <2>2. QED BY <2>1 DEF Members
<1>7. Members(v) \subseteq Members(w)
    BY <1>1, <1>6 DEF Members
<1>8. QED BY <1>4, <1>5, <1>7 DEF w

(* remove() takes the build out and nothing else *)
LEMMA RemovedMembers ==
    ASSUME NEW p, NEW K, NEW q, QueueOK(q, p, K), NEW b \in Builds, b \in Members(q)
    PROVE  /\ QueueOK(Before(q, b) \o After(q, b), p, K)
           /\ Members(Before(q, b) \o After(q, b)) = Members(q) \ {b}
           /\ QueueOK(After(q, b), p, K)
           /\ Members(After(q, b)) \subseteq Members(q) \ {b}
           /\ Members(q) = (Members(Before(q, b)) \cup {b}) \cup Members(After(q, b))
<1> DEFINE k == IndexOf(q, b)
           u == Before(q, b)
           v == After(q, b)
<1>1. /\ q \in Seq(Builds) /\ Len(q) \in Nat /\ DOMAIN q = 1 .. Len(q)
      /\ \A i, j \in DOMAIN q : q[i] = q[j] => i = j
    BY DEF QueueOK
<1>2. k \in 1 .. Len(q) /\ q[k] = b
    BY <1>1 DEF Members, IndexOf
<1> HIDE DEF k
<1>3. /\ u \in Seq(Builds) /\ Len(u) = k - 1
      /\ \A i \in 1 .. (k - 1) : u[i] = q[i]
    BY <1>1, <1>2, SubSeqProperties DEF Before, k
<1>4. /\ v \in Seq(Builds) /\ Len(v) = Len(q) - k
      /\ \A i \in 1 .. (Len(q) - k) : v[i] = q[k + i]
    BY <1>1, <1>2, SubSeqProperties DEF After, k
<1> HIDE DEF u, v
<1>5. /\ Members(u) = {q[i] : i \in 1 .. (k - 1)}
      /\ DOMAIN u = 1 .. (k - 1)
    BY <1>1, <1>2, <1>3 DEF Members
<1>6. /\ DOMAIN v = 1 .. (Len(q) - k)
      /\ \A i \in 1 .. (Len(q) - k) : k + i \in (k + 1) .. Len(q)
      /\ \A j \in (k + 1) .. Len(q) : j - k \in 1 .. (Len(q) - k) /\ k + (j - k) = j
    BY <1>1, <1>2, <1>4
<1>7. Members(v) = {q[i] : i \in (k + 1) .. Len(q)}
  <2>1. ASSUME NEW j \in (k + 1) .. Len(q) PROVE q[j] \in Members(v)
    <3>1. j - k \in DOMAIN v /\ v[j - k] = q[j]
        BY <1>4, <1>6
    <3>2. QED BY <3>1 DEF Members
  <2>2. ASSUME NEW i \in DOMAIN v PROVE \E j \in (k + 1) .. Len(q) : v[i] = q[j]
      BY <1>4, <1>6
  <2>3. QED BY <2>1, <2>2 DEF Members
<1>8. /\ \A i \in 1 .. Len(q) : i = k \/ i \in 1 .. (k - 1) \/ i \in (k + 1) .. Len(q)
      /\ \A i \in 1 .. (k - 1) : i \in 1 .. Len(q) /\ i # k
      /\ \A i \in (k + 1) .. Len(q) : i \in 1 .. Len(q) /\ i # k
    BY <1>1, <1>2
<1>9. Members(u) \cup Members(v) = Members(q) \ {b}
  <2>1. ASSUME NEW x \in Members(q) \ {b} PROVE x \in Members(u) \cup Members(v)
    <3>1. PICK i \in 1 .. Len(q) : x = q[i]
        BY <1>1 DEF Members
    <3>2. i # k
        BY <1>2, <3>1
    <3>3. i \in 1 .. (k - 1) \/ i \in (k + 1) .. Len(q)
        BY <1>8, <3>2
    <3>4. QED BY <1>5, <1>7, <3>1, <3>3
  <2>2. ASSUME NEW x \in Members(u) \cup Members(v) PROVE x \in Members(q) \ {b}
    <3>1. PICK i \in 1 .. Len(q) : i # k /\ x = q[i]
        BY <1>5, <1>7, <1>8
    <3>2. x # b
        BY <1>1, <1>2, <3>1
    <3>3. QED BY <1>1, <3>1, <3>2 DEF Members
  <2>3. QED BY <2>1, <2>2
<1>10. Members(u \o v) = Members(u) \cup Members(v)
    BY <1>3, <1>4, ConcatMembers
<1>11. Members(q) = (Members(u) \cup {b}) \cup Members(v)
    BY <1>9
<1>12. QED BY <1>9, <1>10, <1>11, RemoveFromQueue DEF u, v

----------------------------------------------------------------------------
(* The queue as the set of the builds in it. An entry of project p holds   *)
(* builds of p only, each once.                                            *)
Items(e) == {b \in Builds : b \in Members(e.pending) \/ b = e.high_priority}

EntryOK(e, p) ==
    /\ e \in Entry /\ QueueOK(e.pending, p, Builds)
    /\ e.high_priority # None =>
           /\ ProjectOf[e.high_priority] = p
           /\ e.high_priority \notin Members(e.pending)

OneQueue(f) ==
    /\ DOMAIN f \subseteq Projects /\ IsFiniteSet(DOMAIN f)
    /\ \A p \in DOMAIN f : EntryOK(f[p], p)

Queue(f) == {b \in Builds : \E p \in DOMAIN f : b \in Items(f[p])}

LEMMA ItemsOfProject ==
    ASSUME NEW e, NEW p, EntryOK(e, p), NEW b \in Items(e)
    PROVE  ProjectOf[b] = p
<1>1. b \in Builds /\ b # None
    BY BuildsAssumption DEF Items
<1>2. QED BY <1>1 DEF Items, EntryOK, QueueOK, Members

LEMMA EntryReplaced ==
    ASSUME NEW f, OneQueue(f), NEW p \in DOMAIN f, NEW e, EntryOK(e, p), NEW g,
           g = [f EXCEPT ![p] = e]
    PROVE  OneQueue(g) /\ Queue(g) = (Queue(f) \ Items(f[p])) \cup Items(e)
<1>1. /\ DOMAIN g = DOMAIN f /\ g[p] = e
      /\ \A x \in DOMAIN f : x # p => g[x] = f[x]
    OBVIOUS
<1>2. OneQueue(g)
    BY <1>1 DEF OneQueue
<1>3. \A x \in DOMAIN f : x # p => Items(f[x]) \cap Items(f[p]) = {}
    BY ItemsOfProject DEF OneQueue
<1>4. Items(e) \subseteq Builds
    BY DEF Items
<1>5. QED BY <1>1, <1>2, <1>3, <1>4 DEF Queue

LEMMA EntryPut ==
    ASSUME NEW f, OneQueue(f), NEW p \in Projects, NEW e, EntryOK(e, p),
           p \in DOMAIN f => Items(f[p]) \subseteq Items(e)
    PROVE  /\ OneQueue(Put(f, p, e))
           /\ Queue(Put(f, p, e)) = Queue(f) \cup Items(e)
<1> DEFINE g == Put(f, p, e)
<1>1. /\ DOMAIN g = DOMAIN f \cup {p} /\ g[p] = e
      /\ \A x \in DOMAIN f : x # p => g[x] = f[x]
    BY DEF Put
<1>2. IsFiniteSet(DOMAIN f \cup {p})
    BY FS_AddElement DEF OneQueue
<1> HIDE DEF g
<1>3. OneQueue(g)
    BY <1>1, <1>2 DEF OneQueue
<1>4. Items(e) \subseteq Builds
    BY DEF Items
<1>5. Queue(g) = Queue(f) \cup Items(e)
    BY <1>1, <1>4 DEF Queue
<1>6. QED BY <1>3, <1>5 DEF g

(* clean_priority forgets projects that have nothing queued *)
LEMMA CleanPriorityQueue ==
    ASSUME NEW d, RecordsThere(d), OneQueue(d.priority)
    PROVE  /\ OneQueue(clean_priority(d).priority)
           /\ Queue(clean_priority(d).priority) = Queue(d.priority)
<1> DEFINE f == d.priority
           E == {p \in DOMAIN f : f[p].pending = <<>> /\ f[p].high_priority = None}
           g == Without(f, E)
<1>1. clean_priority(d).priority = g
    BY DEF clean_priority, RecordsThere
<1>2. DOMAIN g = DOMAIN f \ E /\ \A p \in DOMAIN f \ E : g[p] = f[p]
    BY DEF Without
<1>3. \A p \in E : Items(f[p]) = {}
    BY BuildsAssumption DEF Items, Members
<1> HIDE DEF f, E, g
<1>4. IsFiniteSet(DOMAIN f \ E)
    BY FS_Subset DEF OneQueue, f
<1>5. OneQueue(g)
    BY <1>2, <1>4 DEF OneQueue, f
<1>6. Queue(g) = Queue(f)
    BY <1>2, <1>3 DEF Queue
<1>7. QED BY <1>1, <1>5, <1>6 DEF f

LEMMA DequeueQueue ==
    ASSUME NEW d, RecordsThere(d), OneQueue(d.priority), NEW b \in Builds,
           ProjectOf[b] \in DOMAIN d.priority
    PROVE  /\ OneQueue(dequeue(d, b).priority)
           /\ Queue(dequeue(d, b).priority) = Queue(d.priority) \ {b}
<1> DEFINE p == ProjectOf[b]
           e == d.priority[p]
           n == IF b \in Members(e.pending)
                THEN [e EXCEPT !.pending = Before(e.pending, b) \o After(e.pending, b)]
                ELSE [e EXCEPT !.high_priority =
                         IF e.high_priority = b THEN None ELSE e.high_priority]
           f == d.priority
<1>1. EntryOK(e, p)
    BY DEF OneQueue
<1>2. dequeue(d, b).priority = [f EXCEPT ![p] = n]
    BY DEF dequeue, RecordsThere
<1>3. EntryOK(n, p) /\ Items(n) = Items(e) \ {b}
  <2> HIDE DEF e, p
  <2>1. CASE b \in Members(e.pending)
    <3> DEFINE s == Before(e.pending, b) \o After(e.pending, b)
    <3>1. QueueOK(s, p, Builds) /\ Members(s) = Members(e.pending) \ {b}
        BY <1>1, <2>1, RemovedMembers DEF EntryOK
    <3>2. n = [e EXCEPT !.pending = s]
        BY <2>1
    <3> HIDE DEF s, n
    <3>3. s \in Seq(Builds)
        BY <3>1 DEF QueueOK
    <3>4. n \in Entry /\ n.pending = s /\ n.high_priority = e.high_priority
        BY <1>1, <3>2, <3>3 DEF Entry, EntryOK
    <3>5. EntryOK(n, p)
        BY <1>1, <3>1, <3>4 DEF EntryOK
    <3>6. b # e.high_priority
        BY <1>1, <2>1, BuildsAssumption DEF EntryOK
    <3>7. QED BY <3>1, <3>4, <3>5, <3>6 DEF Items
  <2>2. CASE b \notin Members(e.pending)
    <3> DEFINE h == IF e.high_priority = b THEN None ELSE e.high_priority
    <3>1. n = [e EXCEPT !.high_priority = h]
        BY <2>2
    <3>2. h \in Builds \cup {None}
        BY <1>1 DEF Entry, EntryOK
    <3> HIDE DEF n
    <3>3. n \in Entry /\ n.pending = e.pending /\ n.high_priority = h
        BY <1>1, <3>1, <3>2 DEF Entry, EntryOK
    <3>4. EntryOK(n, p)
        BY <1>1, <3>3 DEF EntryOK
    <3>5. QED BY <2>2, <3>3, <3>4, BuildsAssumption DEF Items
  <2>3. QED BY <2>1, <2>2
<1> HIDE DEF n
<1>4. /\ OneQueue([f EXCEPT ![p] = n])
      /\ Queue([f EXCEPT ![p] = n]) = (Queue(f) \ Items(e)) \cup (Items(e) \ {b})
    BY <1>3, EntryReplaced
<1>5. b \in Queue(f) => b \in Items(e)
    BY ItemsOfProject DEF Queue, OneQueue
<1>6. Items(e) \subseteq Queue(f)
    BY DEF Queue, Items
<1>7. QED BY <1>2, <1>4, <1>5, <1>6

(* priority_add: one more build in the queue *)
LEMMA PriorityAddQueue ==
    ASSUME NEW d, RecordsThere(d), OneQueue(d.priority), NEW b \in Builds,
           b \notin Queue(d.priority)
    PROVE  /\ OneQueue(priority_add(d, b).priority)
           /\ Queue(priority_add(d, b).priority) = Queue(d.priority) \cup {b}
<1> DEFINE p == ProjectOf[b]
           f == d.priority
           q == IF p \in DOMAIN f THEN f[p] ELSE [pending |-> <<>>, high_priority |-> None]
           n == [q EXCEPT !.pending =
                    IF b \in Members(q.pending) THEN q.pending ELSE Append(q.pending, b)]
           e == [d EXCEPT !.priority = Put(f, p, n)]
<1>1. p \in Projects /\ b # None
    BY BuildsAssumption
<1>2. priority_add(d, b) = clean_priority(e)
    BY DEF priority_add
<1>3. /\ EntryOK(q, p) /\ b \notin Items(q)
      /\ p \in DOMAIN f => q = f[p]
  <2>1. CASE p \in DOMAIN f
      BY <2>1 DEF OneQueue, Queue
  <2>2. CASE p \notin DOMAIN f
    <3>1. q = [pending |-> <<>>, high_priority |-> None]
        BY <2>2
    <3> HIDE DEF q
    <3>2. q \in Entry /\ q.pending = <<>> /\ q.high_priority = None
        BY <3>1 DEF Entry
    <3>3. EntryOK(q, p)
        BY <3>2, EmptyQueue DEF EntryOK
    <3>4. Items(q) = {}
        BY <3>2, BuildsAssumption DEF Items, Members
    <3>5. QED BY <2>2, <3>3, <3>4
  <2>3. QED BY <2>1, <2>2
<1> HIDE DEF q, p
<1>4. b \notin Members(q.pending) /\ b # q.high_priority
    BY <1>3 DEF Items
<1>5. n = [q EXCEPT !.pending = Append(q.pending, b)]
    BY <1>4
<1>6. /\ QueueOK(Append(q.pending, b), p, Builds)
      /\ Members(Append(q.pending, b)) = Members(q.pending) \cup {b}
      /\ Append(q.pending, b) \in Seq(Builds)
  <2>1. QueueOK(q.pending, p, Builds) /\ q.pending \in Seq(Builds)
      BY <1>3 DEF EntryOK, QueueOK
  <2>2. QED BY <1>4, <2>1, AppendQueue, MembersAppend DEF p
<1> HIDE DEF n
<1>7. /\ n \in Entry /\ n.high_priority = q.high_priority
      /\ n.pending = Append(q.pending, b)
    BY <1>3, <1>5, <1>6 DEF Entry, EntryOK
<1>8. EntryOK(n, p)
    BY <1>3, <1>4, <1>6, <1>7 DEF EntryOK
<1>9. Items(n) = Items(q) \cup {b}
    BY <1>6, <1>7 DEF Items
<1>10. /\ OneQueue(Put(f, p, n))
       /\ Queue(Put(f, p, n)) = Queue(f) \cup Items(n)
    BY <1>1, <1>3, <1>8, <1>9, EntryPut
<1>11. Queue(Put(f, p, n)) = Queue(f) \cup {b}
  <2>1. CASE p \in DOMAIN f
    <3>1. Items(q) \subseteq Queue(f)
        BY <1>3, <2>1 DEF Queue, Items
    <3>2. QED BY <1>9, <1>10, <3>1
  <2>2. CASE p \notin DOMAIN f
    <3>1. q = [pending |-> <<>>, high_priority |-> None]
        BY <2>2 DEF q
    <3>2. Items(q) = {}
        BY <3>1, BuildsAssumption DEF Items, Members
    <3>3. QED BY <1>9, <1>10, <3>2
  <2>3. QED BY <2>1, <2>2
<1>12. RecordsThere(e) /\ e.priority = Put(f, p, n)
    BY DEF RecordsThere, Known
<1> HIDE DEF e
<1>13. QED BY <1>2, <1>10, <1>11, <1>12, CleanPriorityQueue

(* priority_increase: only the builds before b, and the one promoted before *)
(* it, leave the queue, and only when b is pending                          *)
LeftBehind(d, b) ==
    LET e == d.priority[ProjectOf[b]]
    IN  IF b \in Members(e.pending) THEN Members(Before(e.pending, b)) \cup {e.high_priority}
        ELSE {}

LEMMA PriorityIncreaseQueue ==
    ASSUME NEW d, RecordsThere(d), OneQueue(d.priority), NEW b \in Builds,
           ProjectOf[b] \in DOMAIN d.priority
    PROVE  /\ OneQueue(priority_increase(d, b).priority)
           /\ Queue(priority_increase(d, b).priority) \subseteq Queue(d.priority)
           /\ Queue(d.priority) \subseteq
                  Queue(priority_increase(d, b).priority) \cup LeftBehind(d, b)
<1> DEFINE p == ProjectOf[b]
           f == d.priority
           e == f[p]
           n == [e EXCEPT !.pending = After(e.pending, b), !.high_priority = b]
           g == [d EXCEPT !.priority[p] = n]
<1>1. CASE b \notin Members(e.pending)
  <2>1. priority_increase(d, b) = clean_priority(d)
      BY <1>1 DEF priority_increase
  <2>2. QED BY <2>1, CleanPriorityQueue
<1>2. CASE b \in Members(e.pending)
  <2>1. priority_increase(d, b) = clean_priority(
            [d EXCEPT !.priority[p].pending = After(@, b), !.priority[p].high_priority = b])
      BY <1>2 DEF priority_increase
  <2>2. EntryOK(e, p) /\ e \in Entry
      BY DEF OneQueue, EntryOK
  <2>3. [d EXCEPT !.priority[p].pending = After(@, b), !.priority[p].high_priority = b] = g
      BY <2>2 DEF RecordsThere, Entry
  <2>4. RecordsThere(g) /\ g.priority = [f EXCEPT ![p] = n]
      BY DEF RecordsThere, Known
  <2> HIDE DEF e
  <2>5. /\ QueueOK(After(e.pending, b), p, Builds)
        /\ Members(After(e.pending, b)) \subseteq Members(e.pending) \ {b}
        /\ Members(e.pending) = (Members(Before(e.pending, b)) \cup {b})
                                \cup Members(After(e.pending, b))
        /\ After(e.pending, b) \in Seq(Builds)
    <3>1. QueueOK(e.pending, p, Builds)
        BY <2>2 DEF EntryOK
    <3>2. /\ QueueOK(After(e.pending, b), p, Builds)
          /\ Members(After(e.pending, b)) \subseteq Members(e.pending) \ {b}
          /\ Members(e.pending) = (Members(Before(e.pending, b)) \cup {b})
                                  \cup Members(After(e.pending, b))
        BY <1>2, <3>1, RemovedMembers
    <3>3. QED BY <3>2 DEF QueueOK
  <2>6. n \in Entry /\ n.pending = After(e.pending, b) /\ n.high_priority = b
      BY <2>2, <2>5 DEF Entry
  <2> HIDE DEF n, g
  <2>7. EntryOK(n, p)
      BY <2>5, <2>6 DEF EntryOK
  <2>8. Items(n) \subseteq Items(e)
      BY <1>2, <2>5, <2>6 DEF Items
  <2>9. /\ OneQueue(g.priority)
        /\ Queue(g.priority) = (Queue(f) \ Items(e)) \cup Items(n)
      BY <2>4, <2>7, EntryReplaced DEF e
  <2>10. Items(e) \subseteq Queue(f) /\ Items(e) \subseteq Items(n) \cup LeftBehind(d, b)
    <3>1. Items(e) \subseteq Queue(f)
        BY DEF Queue, Items, e
    <3>2. LeftBehind(d, b) = Members(Before(e.pending, b)) \cup {e.high_priority}
        BY <1>2 DEF LeftBehind, e
    <3>3. QED BY <2>5, <2>6, <3>1, <3>2 DEF Items
  <2>11. QED BY <2>1, <2>3, <2>4, <2>8, <2>9, <2>10, CleanPriorityQueue
<1>3. QED BY <1>1, <1>2

(* priority_del, whatever becomes of the status *)
LEMMA PriorityDelQueue ==
    ASSUME NEW d, RecordsThere(d), OneQueue(d.priority), NEW b \in Builds,
           NEW u \in BOOLEAN
    PROVE  /\ OneQueue(priority_del(d, b, u).priority)
           /\ Queue(priority_del(d, b, u).priority) = Queue(d.priority) \ {b}
<1> DEFINE e == dequeue(d, b)
           f == skip(e, b)
<1>1. CASE ProjectOf[b] \notin DOMAIN d.priority
  <2>1. b \notin Queue(d.priority)
      BY <1>1, ItemsOfProject DEF Queue, OneQueue
  <2>2. QED BY <1>1, <2>1 DEF priority_del
<1>2. CASE ProjectOf[b] \in DOMAIN d.priority
  <2>1. OneQueue(e.priority) /\ Queue(e.priority) = Queue(d.priority) \ {b}
      BY <1>2, DequeueQueue
  <2>2. SameInfo(d, e)
      BY QueueRequests
  <2> HIDE DEF e
  <2>3. RecordsThere(e) /\ Known(e) = Known(d)
      BY <2>2, SameRecords DEF NoNewTest
  <2>4. f.priority = e.priority
      BY <2>3 DEF skip, RecordsThere
  <2>5. b \in Known(d) => RecordsThere(f)
      BY <2>3, RecordRequests DEF NoNewTest
  <2> HIDE DEF f
  <2>6. \/ priority_del(d, b, u) \in {e, clean_priority(e)}
        \/ b \in Known(d) /\ priority_del(d, b, u) = clean_priority(f)
      BY <1>2 DEF priority_del, e, f
  <2>7. QED BY <2>1, <2>3, <2>4, <2>5, <2>6, CleanPriorityQueue
<1>3. QED BY <1>1, <1>2

(* find_next_build(extract=True): the build it names leaves the queue *)
LEMMA ExtractQueue ==
    ASSUME NEW d, RecordsThere(d), OneQueue(d.priority), find_next_build(d)[1] # None
    PROVE  /\ find_next_build(d)[1] \in Queue(d.priority)
           /\ OneQueue(extract(d).priority)
           /\ Queue(extract(d).priority) = Queue(d.priority) \ {find_next_build(d)[1]}
<1> DEFINE b == find_next_build(d)[1]
           f == d.priority
<1>1. ASSUME NEW p \in DOMAIN f, b \in Items(f[p]), NEW n, EntryOK(n, p),
             Items(n) = Items(f[p]) \ {b}, extract(d) = [d EXCEPT !.priority[p] = n]
      PROVE  /\ b \in Queue(f) /\ OneQueue(extract(d).priority)
             /\ Queue(extract(d).priority) = Queue(f) \ {b}
  <2>1. extract(d).priority = [f EXCEPT ![p] = n]
      BY <1>1 DEF RecordsThere
  <2> HIDE DEF b
  <2>2. /\ OneQueue(extract(d).priority)
        /\ Queue(extract(d).priority) = (Queue(f) \ Items(f[p])) \cup Items(n)
      BY <1>1, <2>1, EntryReplaced
  <2>3. Items(f[p]) \subseteq Queue(f)
      BY <1>1 DEF Queue, Items
  <2>4. QED BY <1>1, <2>2, <2>3
<1>2. DOMAIN f \subseteq Nat /\ IsFiniteSet(DOMAIN f)
    BY BuildsAssumption DEF OneQueue
<1>3. CASE Promoted(d) # {}
  <2> DEFINE p == Lowest(Promoted(d))
             e == f[p]
             n == [e EXCEPT !.high_priority = None]
  <2>1. Promoted(d) \subseteq Nat /\ Promoted(d) \subseteq DOMAIN f
      BY <1>2 DEF Promoted
  <2>2. p \in Promoted(d)
    <3>1. \E x \in Promoted(d) : \A y \in Promoted(d) : x <= y
        BY <1>3, <2>1, Smallest
    <3>2. QED BY <3>1 DEF Lowest
  <2>3. b = e.high_priority
      BY <1>3 DEF find_next_build
  <2>4. extract(d) = [d EXCEPT !.priority[p].high_priority = None]
      BY <1>3 DEF extract
  <2> HIDE DEF p, b
  <2>5. p \in DOMAIN f /\ e.high_priority # None /\ EntryOK(e, p) /\ e \in Entry
      BY <2>1, <2>2 DEF Promoted, OneQueue, EntryOK
  <2>6. extract(d) = [d EXCEPT !.priority[p] = n]
      BY <2>4, <2>5 DEF RecordsThere
  <2> HIDE DEF e
  <2>7. n \in Entry /\ n.pending = e.pending /\ n.high_priority = None
      BY <2>5 DEF Entry
  <2>8. b \in Builds /\ b \notin Members(e.pending)
      BY <2>3, <2>5 DEF Entry, EntryOK
  <2> HIDE DEF n
  <2>9. EntryOK(n, p)
      BY <2>5, <2>7 DEF EntryOK
  <2>10. b \in Items(e) /\ Items(n) = Items(e) \ {b}
      BY <2>3, <2>7, <2>8, BuildsAssumption DEF Items
  <2>11. QED BY <1>1, <2>5, <2>6, <2>9, <2>10 DEF e, b
<1>4. CASE Promoted(d) = {}
  <2> DEFINE p == Highest(Waiting(d))
             e == f[p]
             q == e.pending
             s == SubSeq(q, 1, Len(q) - 1)
             n == [e EXCEPT !.pending = s]
  <2>1. Waiting(d) # {} /\ b = q[Len(q)]
      BY <1>4 DEF find_next_build
  <2>2. Waiting(d) \subseteq Nat /\ Waiting(d) \subseteq DOMAIN f
      BY <1>2 DEF Waiting
  <2>3. p \in Waiting(d)
    <3>1. IsFiniteSet(Waiting(d))
        BY <1>2, <2>2, FS_Subset
    <3>2. \E x \in Waiting(d) : \A y \in Waiting(d) : y <= x
        BY <2>1, <2>2, <3>1, Largest
    <3>3. QED BY <3>2 DEF Highest
  <2>4. extract(d) = [d EXCEPT !.priority[p].pending = SubSeq(@, 1, Len(@) - 1)]
      BY <1>4 DEF extract
  <2> HIDE DEF p, b
  <2>5. p \in DOMAIN f /\ q # <<>> /\ EntryOK(e, p) /\ e \in Entry
      BY <2>2, <2>3 DEF Waiting, OneQueue, EntryOK
  <2>6. e.high_priority = None
      BY <1>4, <2>5 DEF Promoted
  <2>7. extract(d) = [d EXCEPT !.priority[p] = n]
      BY <2>4, <2>5 DEF RecordsThere
  <2> HIDE DEF e
  <2>8. QueueOK(q, p, Builds) /\ q \in Seq(Builds) /\ Len(q) \in Nat
        /\ DOMAIN q = 1 .. Len(q) /\ \A i, j \in DOMAIN q : q[i] = q[j] => i = j
      BY <2>5 DEF EntryOK, QueueOK
  <2> DEFINE k == Len(q)
  <2>9. Len(q) # 0
      BY <2>5, <2>8
  <2> HIDE DEF q
  <2>10. /\ s \in Seq(Builds) /\ DOMAIN s = 1 .. (k - 1)
         /\ \A i \in 1 .. (k - 1) : s[i] = q[i]
    <3>1. CASE k = 1
      <4>1. s = <<>>
          BY <2>8, <3>1
      <4>2. QED BY <3>1, <4>1
    <3>2. CASE k # 1
      <4>1. /\ k - 1 \in Nat /\ 1 <= k - 1 /\ k - 1 <= Len(q) /\ (k - 1) - 1 + 1 = k - 1
            /\ \A i \in 1 .. (k - 1) : 1 + i - 1 = i
          BY <2>8, <2>9, <3>2
      <4>2. QED BY <2>8, <4>1, SubSeqProperties
    <3>3. QED BY <3>1, <3>2
  <2>11. QueueOK(s, p, Builds)
      BY <2>8, <2>9, SubQueue
  <2> HIDE DEF s
  <2>12. /\ k \in DOMAIN q /\ \A i \in DOMAIN q : i = k \/ i \in 1 .. (k - 1)
         /\ \A i \in 1 .. (k - 1) : i \in DOMAIN q /\ i # k
    <3>1. k \in Nat /\ k # 0 /\ DOMAIN q = 1 .. k
        BY <2>8, <2>9
    <3> HIDE DEF k
    <3>2. QED BY <3>1
  <2> HIDE DEF k
  <2>13. Members(s) = Members(q) \ {b} /\ b \in Members(q) /\ b \in Builds
    <3>1. b = q[k]
        BY <2>1 DEF k
    <3>2. b \in Members(q) /\ b \in Builds
        BY <2>8, <2>12, <3>1 DEF Members
    <3>3. ASSUME NEW x \in Members(q) \ {b} PROVE x \in Members(s)
        BY <2>10, <2>12, <3>1, <3>3 DEF Members
    <3>4. ASSUME NEW x \in Members(s) PROVE x \in Members(q) \ {b}
        BY <2>8, <2>10, <2>12, <3>1, <3>4 DEF Members
    <3>5. QED BY <3>2, <3>3, <3>4
  <2>14. n \in Entry /\ n.pending = s /\ n.high_priority = None
      BY <2>5, <2>6, <2>10 DEF Entry
  <2> HIDE DEF n
  <2>15. EntryOK(n, p)
      BY <2>11, <2>14 DEF EntryOK
  <2>16. b \in Items(e) /\ Items(n) = Items(e) \ {b}
      BY <2>6, <2>13, <2>14, BuildsAssumption DEF Items, q
  <2>17. QED BY <1>1, <2>5, <2>7, <2>15, <2>16 DEF e, b
<1>5. QED BY <1>3, <1>4

(* The builds clean_build may touch: known, matched and not under test. *)
Cleaned(d, S) == {b \in S \cap Known(d) : d.build_info[b].status # "TEST_ONGOING"}

LEMMA CleanBuildQueue ==
    ASSUME NEW d, RecordsThere(d), OneQueue(d.priority), NEW S
    PROVE  /\ OneQueue(clean_build(d, S).priority)
           /\ Queue(clean_build(d, S).priority) = Queue(d.priority) \ Cleaned(d, S)
           /\ Known(clean_build(d, S)) = Known(d) \ (Cleaned(d, S) \ Baselined(d))
           /\ \A b \in Known(clean_build(d, S)) :
                  /\ clean_build(d, S).build_info[b].status = d.build_info[b].status
                  /\ clean_build(d, S).build_info[b].test_result =
                         IF b \in Cleaned(d, S) THEN <<>> ELSE d.build_info[b].test_result
<1> DEFINE T == Cleaned(d, S)
           f == d.priority
           left(e) ==
               [pending |-> Remaining(e.pending, T),
                high_priority |-> IF e.high_priority \in T \ Members(e.pending)
                                  THEN None ELSE e.high_priority]
           rec(b) == IF b \in T THEN [d.build_info[b] EXCEPT !.test_result = <<>>]
                                ELSE d.build_info[b]
           g == [p \in DOMAIN f |-> left(f[p])]
           n == [b \in Known(d) \ (T \ Baselined(d)) |-> rec(b)]
           c == [d EXCEPT !.priority = g, !.build_info = n]
<1>1. clean_build(d, S) = clean_priority(c)
    BY DEF clean_build, Cleaned
<1> HIDE DEF T
<1>2. \A b \in Known(d) :
          /\ DOMAIN rec(b) = {"test_info", "test_result", "status"}
          /\ rec(b).status = d.build_info[b].status
          /\ rec(b).test_result = IF b \in T THEN <<>> ELSE d.build_info[b].test_result
    BY DEF RecordsThere
<1> HIDE DEF left, rec
<1>3. /\ DOMAIN c = {"priority", "build_info", "baselines"}
      /\ c.priority = g /\ c.build_info = n /\ c.baselines = d.baselines
    BY DEF RecordsThere
<1> HIDE DEF c
<1>4. /\ Known(c) = Known(d) \ (T \ Baselined(d))
      /\ \A b \in Known(c) : c.build_info[b] = rec(b)
    BY <1>3 DEF Known
<1>5. RecordsThere(c)
    BY <1>2, <1>3, <1>4 DEF RecordsThere
<1>6. ASSUME NEW e, NEW p, EntryOK(e, p)
      PROVE  EntryOK(left(e), p) /\ Items(left(e)) = Items(e) \ T
  <2> DEFINE s == Remaining(e.pending, T)
             h == IF e.high_priority \in T \ Members(e.pending) THEN None
                  ELSE e.high_priority
  <2>1. QueueOK(s, p, Builds) /\ Members(s) = Members(e.pending) \ T
      BY <1>6, RemainingQueue DEF EntryOK
  <2>2. left(e) = [pending |-> s, high_priority |-> h]
      BY DEF left
  <2>3. h \in Builds \cup {None} /\ s \in Seq(Builds)
      BY <1>6, <2>1 DEF EntryOK, Entry, QueueOK
  <2>4. h # None => h = e.high_priority /\ h \notin T
      BY <1>6 DEF EntryOK
  <2>5. \A b \in Builds : b = h <=> b = e.high_priority /\ b \notin T
      BY <1>6, BuildsAssumption DEF EntryOK
  <2> HIDE DEF s, h
  <2>6. left(e) \in Entry /\ left(e).pending = s /\ left(e).high_priority = h
      BY <2>2, <2>3 DEF Entry
  <2>7. EntryOK(left(e), p)
      BY <1>6, <2>1, <2>4, <2>6 DEF EntryOK
  <2>8. Items(left(e)) = Items(e) \ T
      BY <2>1, <2>5, <2>6 DEF Items
  <2>9. QED BY <2>7, <2>8
<1>7. DOMAIN g = DOMAIN f /\ \A p \in DOMAIN f : g[p] = left(f[p])
    OBVIOUS
<1> HIDE DEF g
<1>8. OneQueue(g) /\ Queue(g) = Queue(f) \ T
  <2>1. \A p \in DOMAIN f : EntryOK(f[p], p)
      BY DEF OneQueue
  <2>2. OneQueue(g)
      BY <1>6, <1>7, <2>1 DEF OneQueue
  <2>3. \A p \in DOMAIN f : Items(g[p]) = Items(f[p]) \ T
      BY <1>6, <1>7, <2>1
  <2>4. QED BY <1>7, <2>2, <2>3 DEF Queue
<1>9. /\ SameInfo(c, clean_priority(c)) /\ Known(clean_priority(c)) = Known(c)
    BY <1>5, CleanPriorityRecords, SameRecords
<1>10. OneQueue(clean_priority(c).priority) /\ Queue(clean_priority(c).priority) = Queue(f) \ T
    BY <1>3, <1>5, <1>8, CleanPriorityQueue
<1>11. QED BY <1>1, <1>2, <1>3, <1>4, <1>9, <1>10 DEF SameInfo, T

----------------------------------------------------------------------------
(* What the requests do to the status and the results of a build.          *)
Cancelled(d, b) == b \in Known(d) /\ d.build_info[b].status = "CANCELLED"

NotTested(d, b) == d.build_info[b].status = "NOT_TESTED"

Untested(d, b) ==
    /\ b \in Known(d)
    /\ NotTested(d, b) /\ d.build_info[b].test_result = <<>>

(* e differs from d in the record of b only *)
Edited(d, e, b) ==
    /\ RecordsThere(e) /\ Known(e) = Known(d)
    /\ e.priority = d.priority
    /\ \A c \in Known(d) : c # b => e.build_info[c] = d.build_info[c]

LEMMA RecordEdits ==
    ASSUME NEW d, RecordsThere(d), NEW b \in Known(d)
    PROVE  /\ \A i : LET e == build_info_update(d, b, i)
                     IN  /\ Edited(d, e, b)
                         /\ e.build_info[b].status = d.build_info[b].status
                         /\ e.build_info[b].test_result = d.build_info[b].test_result
           /\ \A x : LET e == add_build_test_result(d, b, x)
                     IN  /\ Edited(d, e, b)
                         /\ e.build_info[b].status =
                                IF d.build_info[b].status = "TEST_ONGOING" THEN "TESTED"
                                ELSE d.build_info[b].status
                         /\ e.build_info[b].test_result =
                                Append(d.build_info[b].test_result, x)
           /\ \A s : LET e == set_status(d, b, s)
                     IN  /\ Edited(d, e, b)
                         /\ e.build_info[b].status = s
                         /\ e.build_info[b].test_result = d.build_info[b].test_result
           /\ LET e == skip(d, b)
              IN  /\ Edited(d, e, b)
                  /\ e.build_info[b].status =
                         IF d.build_info[b].status = "NOT_TESTED" THEN "SKIPPED"
                         ELSE d.build_info[b].status
                  /\ e.build_info[b].test_result = d.build_info[b].test_result
<1> DEFINE r == d.build_info[b]
           Names == {"test_info", "test_result", "status"}
<1>1. DOMAIN r = Names
    BY DEF RecordsThere
<1>2. ASSUME NEW v, DOMAIN v = Names, NEW e, e = [d EXCEPT !.build_info[b] = v]
      PROVE  Edited(d, e, b) /\ e.build_info[b] = v
  <2>1. /\ DOMAIN e = DOMAIN d /\ e.priority = d.priority
        /\ e.build_info = [d.build_info EXCEPT ![b] = v]
      BY <1>2 DEF RecordsThere
  <2>2. /\ Known(e) = Known(d) /\ e.build_info[b] = v
        /\ \A c \in Known(d) : c # b => e.build_info[c] = d.build_info[c]
      BY <2>1 DEF Known
  <2>3. QED BY <1>2, <2>1, <2>2 DEF RecordsThere, Edited
<1>3. ASSUME NEW i
      PROVE  LET e == build_info_update(d, b, i)
             IN  /\ Edited(d, e, b)
                 /\ e.build_info[b].status = r.status
                 /\ e.build_info[b].test_result = r.test_result
  <2> DEFINE v == [r EXCEPT !.test_info =
                      [k \in InfoKeys |-> IF i[k] = None THEN @[k] ELSE i[k]]]
  <2>1. DOMAIN v = Names /\ v.status = r.status /\ v.test_result = r.test_result
      BY <1>1
  <2>2. build_info_update(d, b, i) = [d EXCEPT !.build_info[b] = v]
      BY DEF build_info_update
  <2> HIDE DEF v
  <2>3. QED BY <1>2, <2>1, <2>2
<1>4. ASSUME NEW x
      PROVE  LET e == add_build_test_result(d, b, x)
             IN  /\ Edited(d, e, b)
                 /\ e.build_info[b].status = IF r.status = "TEST_ONGOING" THEN "TESTED"
                                             ELSE r.status
                 /\ e.build_info[b].test_result = Append(r.test_result, x)
  <2> DEFINE s == IF r.status = "TEST_ONGOING" THEN "TESTED" ELSE r.status
             v == [r EXCEPT !.status = s, !.test_result = Append(@, x)]
  <2>1. DOMAIN v = Names /\ v.status = s /\ v.test_result = Append(r.test_result, x)
      BY <1>1
  <2>2. add_build_test_result(d, b, x) = [d EXCEPT !.build_info[b] = v]
      BY <1>1 DEF add_build_test_result, RecordsThere, Known
  <2> HIDE DEF v
  <2>3. /\ Edited(d, add_build_test_result(d, b, x), b)
        /\ add_build_test_result(d, b, x).build_info[b] = v
      BY <1>2, <2>1, <2>2
  <2>4. QED BY <2>1, <2>3
<1>5. ASSUME NEW s
      PROVE  LET e == set_status(d, b, s)
             IN  /\ Edited(d, e, b)
                 /\ e.build_info[b].status = s
                 /\ e.build_info[b].test_result = r.test_result
  <2> DEFINE v == [r EXCEPT !.status = s]
  <2>1. DOMAIN v = Names /\ v.status = s /\ v.test_result = r.test_result
      BY <1>1
  <2>2. set_status(d, b, s) = [d EXCEPT !.build_info[b] = v]
      BY DEF set_status
  <2> HIDE DEF v
  <2>3. QED BY <1>2, <2>1, <2>2
<1>6. LET e == skip(d, b)
      IN  /\ Edited(d, e, b)
          /\ e.build_info[b].status = IF r.status = "NOT_TESTED" THEN "SKIPPED" ELSE r.status
          /\ e.build_info[b].test_result = r.test_result
  <2> DEFINE s == IF r.status = "NOT_TESTED" THEN "SKIPPED" ELSE r.status
             v == [r EXCEPT !.status = s]
  <2>1. DOMAIN v = Names /\ v.status = s /\ v.test_result = r.test_result
      BY <1>1
  <2>2. skip(d, b) = [d EXCEPT !.build_info[b] = v]
      BY DEF skip
  <2> HIDE DEF v
  <2>3. /\ Edited(d, skip(d, b), b)
        /\ skip(d, b).build_info[b] = v
      BY <1>2, <2>1, <2>2
  <2>4. QED BY <2>1, <2>3
<1>7. QED BY <1>3, <1>4, <1>5, <1>6

(* The results of every build are a list. *)
TheResult == CHOOSE x \in Results : TRUE
ResultLists(d) ==
    \A b \in Known(d) : d.build_info[b].test_result \in Seq(Results \cup {TheResult})

(* The status CANCELLED is neither given nor taken, only lost with the record. *)
CancelledAlike(d, e) ==
    \A c \in Builds : /\ Cancelled(e, c) => Cancelled(d, c)
                      /\ Cancelled(d, c) /\ c \in Known(e) => Cancelled(e, c)

(* A record is as untested as it was. *)
UntestedAlike(d, e) ==
    /\ Known(e) \subseteq Known(d)
    /\ \A c \in Builds : Untested(e, c) => Untested(d, c)
    /\ \A c \in Known(e) : NotTested(e, c) => NotTested(d, c)
    /\ ResultLists(d) => ResultLists(e)

RecordsAlike(d, e) == CancelledAlike(d, e) /\ UntestedAlike(d, e)

LEMMA SameInfoAlike ==
    ASSUME NEW d, NEW e, SameInfo(d, e)
    PROVE  RecordsAlike(d, e) /\ Known(e) = Known(d)
           /\ \A c : Untested(e, c) <=> Untested(d, c)
BY DEF SameInfo, RecordsAlike, CancelledAlike, UntestedAlike, Cancelled, Untested, Known,
       ResultLists, NotTested

LEMMA EditAlike ==
    ASSUME NEW d, RecordsThere(d), NEW b \in Known(d), NEW e, Edited(d, e, b),
           d.build_info[b].status = "CANCELLED" <=> e.build_info[b].status = "CANCELLED",
           e.build_info[b].status = "NOT_TESTED" => d.build_info[b].status = "NOT_TESTED",
           e.build_info[b].test_result = d.build_info[b].test_result
    PROVE  RecordsAlike(d, e)
<1>1. Known(e) = Known(d) /\ \A c \in Known(d) : c # b => e.build_info[c] = d.build_info[c]
    BY DEF Edited
<1>2. CancelledAlike(d, e)
    BY <1>1 DEF CancelledAlike, Cancelled
<1>3. ResultLists(d) => ResultLists(e)
    BY <1>1 DEF ResultLists
<1>4. UntestedAlike(d, e)
    BY <1>1, <1>3 DEF UntestedAlike, Untested, NotTested
<1>5. QED BY <1>2, <1>4 DEF RecordsAlike

(* requests that leave the queue alone *)
LEMMA SamePriority ==
    ASSUME NEW d, RecordsThere(d), NEW b \in Builds
    PROVE  /\ \A i : build_info_add(d, b, i).priority = d.priority
           /\ baseline_add(d, b).priority = d.priority
BY DEF build_info_add, baseline_add, RecordsThere

(* priority_del of the gateway: a build it takes out is not untested any more *)
LEMMA PriorityDelRecords ==
    ASSUME NEW d, RecordsThere(d), OneQueue(d.priority), NEW b \in Builds, NEW u \in BOOLEAN
    PROVE  LET e == priority_del(d, b, u)
           IN  /\ RecordsAlike(d, e) /\ Known(e) = Known(d)
               /\ u /\ b \in Queue(d.priority) => ~Untested(e, b)
<1> DEFINE e == dequeue(d, b)
           f == skip(e, b)
           Fine(g) == RecordsThere(g) /\ RecordsAlike(d, g) /\ Known(g) = Known(d)
<1>1. Fine(d) /\ Fine(e)
  <2>1. Fine(d)
      BY SameInfoAlike DEF SameInfo
  <2>2. Fine(e)
    <3>1. SameInfo(d, e)
        BY QueueRequests
    <3> HIDE DEF e
    <3>2. QED BY <3>1, SameInfoAlike, SameRecords DEF NoNewTest
  <2>3. QED BY <2>1, <2>2
<1>2. ASSUME b \in Known(d) PROVE Fine(f) /\ ~Untested(f, b)
  <2>1. SameInfo(d, e) /\ RecordsThere(e) /\ b \in Known(e)
      BY <1>1, <1>2, QueueRequests
  <2> HIDE DEF e
  <2>2. /\ Edited(e, f, b)
        /\ f.build_info[b].status = IF e.build_info[b].status = "NOT_TESTED" THEN "SKIPPED"
                                    ELSE e.build_info[b].status
        /\ f.build_info[b].test_result = e.build_info[b].test_result
      BY <2>1, RecordEdits
  <2> HIDE DEF f
  <2>3. RecordsAlike(e, f)
      BY <2>1, <2>2, EditAlike
  <2>4. RecordsAlike(d, f)
      BY <2>1, <2>3 DEF SameInfo, RecordsAlike, CancelledAlike, UntestedAlike, Cancelled,
                        Untested, Known, ResultLists, NotTested
  <2>5. QED BY <1>1, <2>2, <2>4 DEF Edited, Untested, NotTested
<1>3. ASSUME NEW g, Fine(g)
      PROVE  Fine(clean_priority(g)) /\ \A c : Untested(clean_priority(g), c) <=> Untested(g, c)
  <2>1. SameInfo(g, clean_priority(g))
      BY <1>3, CleanPriorityRecords
  <2>2. RecordsThere(clean_priority(g))
      BY <1>3, <2>1, SameRecords DEF NoNewTest
  <2> DEFINE h == clean_priority(g)
  <2> HIDE DEF h
  <2>3. \A c : Untested(h, c) <=> Untested(g, c)
      BY <2>1, SameInfoAlike DEF h
  <2>4. RecordsAlike(d, h) /\ Known(h) = Known(g)
      BY <1>3, <2>1 DEF SameInfo, RecordsAlike, CancelledAlike, UntestedAlike, Cancelled,
                        Untested, Known, ResultLists, NotTested, h
  <2>5. QED BY <1>3, <2>1, <2>2, <2>3, <2>4 DEF h
<1> HIDE DEF e, f
<1>4. CASE ProjectOf[b] \notin DOMAIN d.priority
  <2>1. b \notin Queue(d.priority)
      BY <1>4, ItemsOfProject DEF Queue, OneQueue
  <2>2. QED BY <1>1, <1>4, <2>1 DEF priority_del
<1>5. CASE ProjectOf[b] \in DOMAIN d.priority /\ u /\ b \notin Known(d)
  <2>1. priority_del(d, b, u) = e
      BY <1>5 DEF priority_del, e
  <2>2. QED BY <1>1, <1>5, <2>1 DEF Untested
<1>6. CASE ProjectOf[b] \in DOMAIN d.priority /\ u /\ b \in Known(d)
  <2>1. priority_del(d, b, u) = clean_priority(f)
      BY <1>6 DEF priority_del, e, f
  <2>2. QED BY <1>2, <1>3, <1>6, <2>1
<1>7. CASE ProjectOf[b] \in DOMAIN d.priority /\ ~u
  <2>1. priority_del(d, b, u) = clean_priority(e)
      BY <1>7 DEF priority_del, e
  <2>2. QED BY <1>1, <1>3, <1>7, <2>1
<1>8. QED BY <1>4, <1>5, <1>6, <1>7

(* What an action of the gateway about build b makes of the queue and the   *)
(* records. clean_build takes the results of a baseline and keeps its       *)
(* record, so that it is untested again.                                    *)
Effect(a, b, e) ==
    /\ OneQueue(e.priority)
    /\ \A c \in Queue(e.priority) : c \in Queue(db.priority) \/ (c = b /\ a = "priority_add")
    /\ a = "priority_add" => b \in Queue(e.priority)
    /\ \A c \in Queue(db.priority) :
           c \in Queue(e.priority) \/ ~Untested(e, c) \/ c \in DroppedBy(a, b)
    /\ CancelledAlike(db, e)
    /\ \A c \in Known(e) : c \in Known(db) \/ (c = b /\ a = "build_info_add")
    /\ \A c \in Builds : Untested(e, c) =>
           Untested(db, c) \/ c \in DroppedBy(a, b) \/ (c = b /\ a = "build_info_add")
    /\ \A c \in Known(e) : NotTested(e, c) =>
           (c \in Known(db) /\ NotTested(db, c)) \/ (c = b /\ a = "build_info_add")
    /\ ResultLists(db) => ResultLists(e)

LEMMA ActionEffects ==
    ASSUME RecordsThere(db), OneQueue(db.priority), NEW a, NEW b \in Builds, ~Raises(a, b),
           a = "priority_add" => b \notin Queue(db.priority)
    PROVE  Effect(a, b, AfterAction(a, b))
<1>1. ASSUME NEW e, RecordsAlike(db, e), OneQueue(e.priority),
             Queue(e.priority) \subseteq Queue(db.priority), a # "priority_add",
             \A c \in Queue(db.priority) :
                 c \in Queue(e.priority) \/ ~Untested(e, c) \/ c \in DroppedBy(a, b)
      PROVE  Effect(a, b, e)
    BY <1>1 DEF RecordsAlike, UntestedAlike, Effect
<1> DEFINE e == AfterAction(a, b)
<1>2. CASE a = "build_info_add"
  <2> DEFINE v == [test_info |-> TheInfo, test_result |-> <<>>, status |-> "NOT_TESTED"]
  <2>1. e = build_info_add(db, b, TheInfo)
      BY <1>2 DEF AfterAction
  <2>2. e.build_info = Put(db.build_info, b, v) /\ v.status = "NOT_TESTED" /\ v.test_result = <<>>
      BY <2>1 DEF build_info_add, RecordsThere
  <2>3. e.priority = db.priority
      BY <2>1, SamePriority
  <2> HIDE DEF v, e
  <2>4. /\ Known(e) = Known(db) \cup {b} /\ e.build_info[b] = v /\ b \notin Known(db)
        /\ \A c \in Known(db) : e.build_info[c] = db.build_info[c]
      BY <1>2, <2>2 DEF Put, Known, Raises
  <2>5. CancelledAlike(db, e)
      BY <2>2, <2>4 DEF CancelledAlike, Cancelled
  <2>6. \A c \in Builds : Untested(e, c) => Untested(db, c) \/ c = b
      BY <2>4 DEF Untested, NotTested
  <2>61. \A c \in Known(e) : NotTested(e, c) => (c \in Known(db) /\ NotTested(db, c)) \/ c = b
      BY <2>4 DEF NotTested
  <2>7. ResultLists(db) => ResultLists(e)
    <3>1. <<>> \in Seq(Results \cup {TheResult})
        OBVIOUS
    <3>2. QED BY <2>2, <2>4, <3>1 DEF ResultLists
  <2>8. Effect(a, b, e)
      BY <1>2, <2>3, <2>4, <2>5, <2>6, <2>61, <2>7 DEF Effect
  <2>9. QED BY <2>8 DEF e
<1>3. CASE a = "build_info_update"
  <2>1. e = build_info_update(db, b, TheInfo) /\ b \in Known(db)
      BY <1>3 DEF AfterAction, Raises
  <2>2. /\ Edited(db, e, b)
        /\ e.build_info[b].status = db.build_info[b].status
        /\ e.build_info[b].test_result = db.build_info[b].test_result
      BY <2>1, RecordEdits
  <2> HIDE DEF e
  <2>3. RecordsAlike(db, e)
      BY <2>1, <2>2, EditAlike
  <2>4. Effect(a, b, e)
      BY <1>1, <1>3, <2>2, <2>3 DEF Edited
  <2>5. QED BY <2>4 DEF e
<1>4. CASE a = "priority_add"
  <2>1. e = priority_add(db, b)
      BY <1>4 DEF AfterAction
  <2>2. OneQueue(e.priority) /\ Queue(e.priority) = Queue(db.priority) \cup {b}
      BY <1>4, <2>1, PriorityAddQueue
  <2>3. SameInfo(db, e)
      BY <2>1, QueueRequests
  <2> HIDE DEF e
  <2>4. RecordsAlike(db, e)
      BY <2>3, SameInfoAlike
  <2>5. Effect(a, b, e)
      BY <1>4, <2>2, <2>4 DEF RecordsAlike, UntestedAlike, Effect
  <2>6. QED BY <2>5 DEF e
<1>5. CASE a = "priority_del"
  <2>1. e = priority_del(db, b, TRUE)
      BY <1>5 DEF AfterAction
  <2>2. OneQueue(e.priority) /\ Queue(e.priority) = Queue(db.priority) \ {b}
      BY <2>1, PriorityDelQueue
  <2>3. /\ RecordsAlike(db, e)
        /\ b \in Queue(db.priority) => ~Untested(e, b)
      BY <2>1, PriorityDelRecords
  <2> HIDE DEF e
  <2>4. Effect(a, b, e)
      BY <1>1, <1>5, <2>2, <2>3
  <2>5. QED BY <2>4 DEF e
<1>6. CASE a = "priority_increase"
  <2>1. e = priority_increase(db, b) /\ ProjectOf[b] \in DOMAIN db.priority
      BY <1>6 DEF AfterAction, Raises
  <2>2. /\ OneQueue(e.priority) /\ Queue(e.priority) \subseteq Queue(db.priority)
        /\ Queue(db.priority) \subseteq Queue(e.priority) \cup LeftBehind(db, b)
      BY <2>1, PriorityIncreaseQueue
  <2>3. SameInfo(db, e)
      BY <2>1, QueueRequests
  <2>4. LeftBehind(db, b) \subseteq DroppedBy(a, b)
      BY <1>6, <2>1 DEF LeftBehind, DroppedBy, IsPending
  <2> HIDE DEF e
  <2>5. RecordsAlike(db, e)
      BY <2>3, SameInfoAlike
  <2>6. Effect(a, b, e)
      BY <1>1, <1>6, <2>2, <2>4, <2>5
  <2>7. QED BY <2>6 DEF e
<1>7. CASE a = "baseline_add"
  <2>1. e = baseline_add(db, b)
      BY <1>7 DEF AfterAction
  <2>2. SameInfo(db, e) /\ e.priority = db.priority
      BY <2>1, QueueRequests, SamePriority
  <2> HIDE DEF e
  <2>3. RecordsAlike(db, e)
      BY <2>2, SameInfoAlike
  <2>4. Effect(a, b, e)
      BY <1>7, <2>2, <2>3 DEF RecordsAlike, UntestedAlike, Effect
  <2>5. QED BY <2>4 DEF e
<1>8. ASSUME NEW S, e = clean_build(db, S), DroppedBy(a, b) = S \cap Baselined(db),
             a \in {"release_info_purge", "project_info_purge"}
      PROVE  Effect(a, b, e)
  <2> DEFINE T == Cleaned(db, S)
  <2> HIDE DEF T
  <2>1. /\ OneQueue(e.priority) /\ Queue(e.priority) = Queue(db.priority) \ T
        /\ Known(e) = Known(db) \ (T \ Baselined(db)) /\ T \subseteq S
        /\ \A c \in Known(e) :
               /\ e.build_info[c].status = db.build_info[c].status
               /\ e.build_info[c].test_result =
                      IF c \in T THEN <<>> ELSE db.build_info[c].test_result
      BY <1>8, CleanBuildQueue DEF T, Cleaned
  <2> HIDE DEF e
  <2>2. CancelledAlike(db, e)
      BY <2>1 DEF CancelledAlike, Cancelled
  <2>3. \A c \in Builds : Untested(e, c) =>
            c \in DroppedBy(a, b) \/ (c \notin T /\ Untested(db, c))
      BY <1>8, <2>1 DEF Untested, NotTested
  <2>4. ResultLists(db) => ResultLists(e)
    <3>1. <<>> \in Seq(Results \cup {TheResult})
        OBVIOUS
    <3>2. QED BY <2>1, <3>1 DEF ResultLists
  <2>5. Queue(db.priority) \subseteq Builds
      BY DEF Queue
  <2>6. QED BY <1>8, <2>1, <2>2, <2>3, <2>4, <2>5 DEF Effect, NotTested
<1>9. CASE a = "release_info_purge"
  <2>1. /\ e = clean_build(db, ReleasePrefix[b])
        /\ DroppedBy(a, b) = ReleasePrefix[b] \cap Baselined(db)
      BY <1>9 DEF AfterAction, DroppedBy
  <2> HIDE DEF e
  <2>2. Effect(a, b, e)
      BY <1>8, <1>9, <2>1
  <2>3. QED BY <2>2 DEF e
<1>10. CASE a = "project_info_purge"
  <2>1. /\ e = clean_build(db, ProjectPrefix[b] \ {b})
        /\ DroppedBy(a, b) = (ProjectPrefix[b] \ {b}) \cap Baselined(db)
      BY <1>10 DEF AfterAction, DroppedBy
  <2> HIDE DEF e
  <2>2. Effect(a, b, e)
      BY <1>8, <1>10, <2>1
  <2>3. QED BY <2>2 DEF e
<1>11. CASE a \notin {"build_info_add", "build_info_update", "priority_add",
                      "priority_del", "priority_increase", "baseline_add",
                      "release_info_purge", "project_info_purge"}
  <2>1. e = db
      BY <1>11 DEF AfterAction
  <2>2. RecordsAlike(db, db)
      BY SameInfoAlike DEF SameInfo
  <2>3. Effect(a, b, db)
      BY <1>1, <1>11, <2>2
  <2>4. QED BY <2>1, <2>3
<1>12. QED BY <1>2, <1>3, <1>4, <1>5, <1>6, <1>7, <1>9, <1>10, <1>11

----------------------------------------------------------------------------
(* The place of a build in the queue and in the hands of the controller.    *)

(* the gateway is past that place *)
Added(b) ==
    \A t \in Triggers : \A i \in DOMAIN TriggerTranslator[t] :
        TriggerTranslator[t][i] = "priority_add" => gw[b][t].at > i

NoForce == "force_build" \notin env.commands
NoForceSignal(q) == \A i \in DOMAIN q : q[i].name # "force_build"

AtOK == \A b \in Builds, t \in Triggers : gw[b][t].at \in Nat

(* A build enters the queue once. Unless builds are forced, the one under  *)
(* test has left it for good, and a cancelled one is not on its way to     *)
(* another test.                                                           *)
QueueInv ==
    /\ AtOK
    /\ OneQueue(db.priority)
    /\ \A b \in Queue(db.priority) : Added(b)
    /\ NoForce =>
           /\ NoForceSignal(bus)
           /\ ctl.build # None => Added(ctl.build) /\ ctl.build \notin Queue(db.priority)
           /\ \A b \in Builds : Cancelled(db, b) =>
                  /\ Added(b) /\ b \notin Queue(db.priority)
                  /\ ctl.build = b => ctl.pc \in {"idle", "get_build"}

(* the action CancelledStays is about *)
StaysCancelled ==
    NoForce => \A b \in Builds : Cancelled(db, b) /\ b \in Known(db') => Cancelled(db', b)

Advanced ==
    \A b \in Builds, t \in Triggers : gw'[b][t].at \in Nat /\ gw'[b][t].at >= gw[b][t].at

LEMMA AddedStays ==
    ASSUME AtOK, Advanced, NEW b \in Builds, Added(b)
    PROVE  Added(b)'
<1>1. ASSUME NEW t \in Triggers, NEW i \in DOMAIN TriggerTranslator[t],
             TriggerTranslator[t][i] = "priority_add"
      PROVE  gw'[b][t].at > i
  <2>1. i \in Nat
      BY ServiceAssumption
  <2>2. gw[b][t].at > i
      BY <1>1 DEF Added
  <2>3. gw[b][t].at \in Nat /\ gw'[b][t].at \in Nat /\ gw'[b][t].at >= gw[b][t].at
      BY DEF AtOK, Advanced
  <2>4. QED BY <2>1, <2>2, <2>3
<1>2. QED BY <1>1 DEF Added

LEMMA HandleAdvances ==
    ASSUME GatewayOK, AtOK, NEW b \in Builds, NEW t \in Triggers, Handle(b, t)
    PROVE  /\ Advanced
           /\ gw[b][t].at \in DOMAIN TriggerTranslator[t]
           /\ gw'[b][t].at > gw[b][t].at
           /\ \A c \in Builds, u \in Triggers : c # b \/ u # t => gw'[c][u] = gw[c][u]
<1> DEFINE at == gw[b][t].at
           n == Len(TriggerTranslator[t])
<1>1. at \in DOMAIN TriggerTranslator[t] /\ at \in Nat
    BY DEF Handle, AtOK
<1>2. n \in Nat /\ at <= n
    BY <1>1, ServiceAssumption
<1>3. PICK v : gw' = [gw EXCEPT ![b][t] = v] /\ v.at \in Nat /\ v.at > at
  <2>1. CASE Raises(TriggerTranslator[t][at], b)
    <3> DEFINE v == [gw[b][t] EXCEPT !.at = n + 1]
    <3>1. gw' = [gw EXCEPT ![b][t] = v]
        BY <2>1 DEF Handle
    <3>2. v.at = n + 1
        BY DEF GatewayOK
    <3> HIDE DEF v, n, at
    <3>3. v.at \in Nat /\ v.at > at
        BY <1>1, <1>2, <3>2
    <3>4. QED BY <3>1, <3>3
  <2>2. CASE ~Raises(TriggerTranslator[t][at], b)
    <3> DEFINE v == [at |-> at + 1,
                     was_pending |-> TriggerTranslator[t][at] = "priority_increase"
                                     /\ IsPending(b),
                     dropped |-> gw[b][t].dropped
                                 \cup DroppedBy(TriggerTranslator[t][at], b)]
    <3>1. gw' = [gw EXCEPT ![b][t] = v]
        BY <2>2 DEF Handle
    <3>2. v.at = at + 1
        OBVIOUS
    <3> HIDE DEF v, at
    <3>3. v.at \in Nat /\ v.at > at
        BY <1>1, <3>2
    <3>4. QED BY <3>1, <3>3
  <2>3. QED BY <2>1, <2>2
<1>4. /\ gw'[b][t] = v
      /\ \A c \in Builds, u \in Triggers : c # b \/ u # t => gw'[c][u] = gw[c][u]
    BY <1>3 DEF GatewayOK
<1>5. Advanced
  <2> SUFFICES ASSUME NEW c \in Builds, NEW u \in Triggers
               PROVE  gw'[c][u].at \in Nat /\ gw'[c][u].at >= gw[c][u].at
      BY DEF Advanced
  <2>1. gw[c][u].at \in Nat
      BY DEF AtOK
  <2>2. CASE c = b /\ u = t
      BY <1>1, <1>3, <1>4, <2>2
  <2>3. CASE c # b \/ u # t
      BY <1>4, <2>1, <2>3
  <2>4. QED BY <2>2, <2>3
<1>6. QED BY <1>1, <1>3, <1>4, <1>5

(* signals other than force_build *)
LEMMA NoForceTaken ==
    ASSUME NEW q, BusOK(q), q # <<>>, NoForceSignal(q)
    PROVE  NoForceSignal(Tail(q)) /\ Head(q).name # "force_build"
<1>1. /\ q \in Seq(Signals) /\ Len(q) \in Nat /\ Len(q) > 0
      /\ DOMAIN q = 1 .. Len(q) /\ Head(q) = q[1]
    BY DEF BusOK
<1>2. /\ DOMAIN Tail(q) = 1 .. (Len(q) - 1)
      /\ \A i \in 1 .. (Len(q) - 1) : Tail(q)[i] = q[i + 1] /\ i + 1 \in DOMAIN q
    BY <1>1
<1>3. QED BY <1>1, <1>2 DEF NoForceSignal

LEMMA NoForceSent ==
    ASSUME NEW q \in Seq(Signals), NoForceSignal(q), NEW s \in Signals,
           s.name # "force_build"
    PROVE  NoForceSignal(Append(q, s))
<1>1. /\ Len(q) \in Nat /\ DOMAIN q = 1 .. Len(q)
      /\ DOMAIN Append(q, s) = 1 .. (Len(q) + 1)
      /\ Append(q, s)[Len(q) + 1] = s
      /\ \A i \in 1 .. Len(q) : Append(q, s)[i] = q[i]
    OBVIOUS
<1>2. \A i \in 1 .. (Len(q) + 1) : i = Len(q) + 1 \/ i \in 1 .. Len(q)
    BY <1>1
<1>3. QED BY <1>1, <1>2 DEF NoForceSignal

LEMMA NoForceEmitted ==
    ASSUME BusOK(bus), NoForceSignal(bus), NEW a, NEW b \in Builds, NEW p \in BOOLEAN
    PROVE  NoForceSignal(bus \o Emitted(a, b, p))
<1>1. bus \in Seq(Signals)
    BY DEF BusOK
<1>2. CASE Emitted(a, b, p) = <<>>
    BY <1>1, <1>2
<1>3. ASSUME NEW n \in {"check_priority_list", "set_test_to_faulty", "priority_increase"},
             NEW c \in Builds \cup {None}, NEW f \in BOOLEAN,
             Emitted(a, b, p) = <<Sig(n, c, f)>>
      PROVE  NoForceSignal(bus \o Emitted(a, b, p))
  <2> DEFINE s == Sig(n, c, f)
  <2>1. s \in Signals /\ s.name = n
      BY SigType
  <2>2. Emitted(a, b, p) = <<s>>
      BY <1>3
  <2> HIDE DEF s
  <2>3. bus \o Emitted(a, b, p) = Append(bus, s)
      BY <1>1, <2>1, <2>2, AppendIsConcat
  <2>4. QED BY <1>1, <2>1, <2>3, NoForceSent
<1>4. \/ Emitted(a, b, p) = <<>>
      \/ Emitted(a, b, p) = <<Sig("check_priority_list", None, FALSE)>>
      \/ Emitted(a, b, p) = <<Sig("set_test_to_faulty", b, FALSE)>>
      \/ Emitted(a, b, p) = <<Sig("priority_increase", b, p)>>
    BY DEF Emitted, Check
<1>5. QED BY <1>2, <1>3, <1>4

(* update_build_status and the result of a test *)
LEMMA StatusEffect ==
    ASSUME RecordsThere(db), NEW s, NEW e, e = StatusAfter(s), s # "NOT_TESTED"
    PROVE  /\ e.priority = db.priority /\ Known(e) = Known(db)
           /\ \A c \in Builds :
                  /\ Cancelled(e, c) => Cancelled(db, c) \/ (c = ctl.build /\ s = "CANCELLED")
                  /\ Cancelled(db, c) => Cancelled(e, c)
                                         \/ (c = ctl.build /\ s # "CANCELLED")
                  /\ Untested(e, c) => Untested(db, c)
           /\ \A c \in Known(db) : NotTested(e, c) => NotTested(db, c)
           /\ ~ctl.paused /\ ctl.build \in Known(db) => e.build_info[ctl.build].status = s
           /\ ResultLists(db) => ResultLists(e)
<1>1. CASE ctl.paused \/ ctl.build \notin Known(db)
  <2>1. e = db
      BY <1>1 DEF StatusAfter
  <2>2. QED BY <1>1, <2>1
<1>2. CASE ~ctl.paused /\ ctl.build \in Known(db)
  <2> DEFINE b == ctl.build
  <2>1. e = set_status(db, b, s)
      BY <1>2 DEF StatusAfter
  <2>2. /\ Edited(db, e, b) /\ e.build_info[b].status = s
        /\ e.build_info[b].test_result = db.build_info[b].test_result
      BY <1>2, <2>1, RecordEdits
  <2>3. \A c \in Builds :
            /\ Cancelled(e, c) => Cancelled(db, c) \/ (c = b /\ s = "CANCELLED")
            /\ Cancelled(db, c) => Cancelled(e, c) \/ (c = b /\ s # "CANCELLED")
            /\ Untested(e, c) => Untested(db, c)
      BY <2>2 DEF Edited, Cancelled, Untested, NotTested
  <2>4. ResultLists(db) => ResultLists(e)
      BY <2>2 DEF Edited, ResultLists
  <2>5. \A c \in Known(db) : NotTested(e, c) => NotTested(db, c)
      BY <2>2 DEF Edited, NotTested
  <2>6. QED BY <2>2, <2>3, <2>4, <2>5 DEF Edited
<1>3. QED BY <1>1, <1>2

LEMMA ResultEffect ==
    ASSUME RecordsThere(db), NEW b, NEW e,
           e = IF b \in Known(db) THEN add_build_test_result(db, b, TheResult) ELSE db
    PROVE  /\ e.priority = db.priority /\ Known(e) = Known(db)
           /\ CancelledAlike(db, e)
           /\ \A c \in Known(db) : NotTested(e, c) => NotTested(db, c)
           /\ ResultLists(db) => /\ ResultLists(e)
                                 /\ \A c \in Builds : Untested(e, c) =>
                                                          Untested(db, c) /\ c # b
<1>1. CASE b \notin Known(db)
  <2>1. e = db
      BY <1>1
  <2>2. QED BY <1>1, <2>1 DEF CancelledAlike, Untested
<1>2. CASE b \in Known(db)
  <2> DEFINE r == db.build_info[b].test_result
             R == Results \cup {TheResult}
  <2>1. e = add_build_test_result(db, b, TheResult)
      BY <1>2
  <2>2. /\ Edited(db, e, b)
        /\ e.build_info[b].status =
               IF db.build_info[b].status = "TEST_ONGOING" THEN "TESTED"
               ELSE db.build_info[b].status
        /\ e.build_info[b].test_result = Append(r, TheResult)
      BY <1>2, <2>1, RecordEdits
  <2>3. CancelledAlike(db, e)
      BY <2>2 DEF Edited, CancelledAlike, Cancelled
  <2>4. ASSUME ResultLists(db)
        PROVE  Append(r, TheResult) \in Seq(R) /\ Append(r, TheResult) # <<>>
    <3>1. r \in Seq(R) /\ TheResult \in R
        BY <1>2, <2>4 DEF ResultLists
    <3> HIDE DEF r, R
    <3>2. Append(r, TheResult) \in Seq(R) /\ Len(Append(r, TheResult)) = Len(r) + 1
        BY <3>1, AppendProperties
    <3>3. Len(r) + 1 # 0
        BY <3>1
    <3>4. Len(<<>>) = 0
        OBVIOUS
    <3>5. QED BY <3>2, <3>3, <3>4
  <2>5. ResultLists(db) => ResultLists(e)
      BY <2>2, <2>4 DEF Edited, ResultLists
  <2>6. ResultLists(db) => \A c \in Builds : Untested(e, c) => Untested(db, c) /\ c # b
      BY <2>2, <2>4 DEF Edited, Untested, NotTested
  <2>7. \A c \in Known(db) : NotTested(e, c) => NotTested(db, c)
      BY <2>2 DEF Edited, NotTested
  <2>8. QED BY <2>2, <2>3, <2>5, <2>6, <2>7 DEF Edited
<1>3. QED BY <1>1, <1>2

----------------------------------------------------------------------------
(* The invariant of the queue, step by step *)

(* A step that gives the controller no new build. *)
LEMMA CalmStep ==
    ASSUME ServiceTypes, QueueInv, Advanced, OneQueue(db'.priority),
           \A b \in Queue(db'.priority) :
               b \in Queue(db.priority) \/ (~Added(b) /\ Added(b)'),
           env'.commands = env.commands,
           NoForce => NoForceSignal(bus'),
           ctl'.build \in {ctl.build, None},
           ctl.pc \in {"idle", "get_build"} => ctl'.pc \in {"idle", "get_build"},
           \A b \in Builds : Cancelled(db', b) =>
               Cancelled(db, b) \/ (b = ctl.build /\ ctl'.pc = "idle")
    PROVE  QueueInv'
<1>1. /\ AtOK /\ \A b \in Builds : Added(b) => Added(b)'
      /\ Queue(db.priority) \subseteq Builds /\ Queue(db'.priority) \subseteq Builds
      /\ ctl.build \in Builds \cup {None}
    BY AddedStays DEF QueueInv, Queue, ServiceTypes, Controller
<1>2. AtOK'
    BY DEF Advanced, AtOK
<1>3. \A b \in Queue(db'.priority) : Added(b)'
    BY <1>1 DEF QueueInv
<1>4. NoForce' <=> NoForce
    BY DEF NoForce
<1>5. ASSUME NoForce, ctl'.build # None
      PROVE  Added(ctl.build)' /\ ctl.build \notin Queue(db'.priority) /\ ctl'.build = ctl.build
    BY <1>1, <1>5 DEF QueueInv
<1>6. ASSUME NoForce, NEW b \in Builds, Cancelled(db', b)
      PROVE  /\ Added(b)' /\ b \notin Queue(db'.priority)
             /\ ctl'.build = b => ctl'.pc \in {"idle", "get_build"}
  <2>1. b # None
      BY BuildsAssumption
  <2>2. CASE Cancelled(db, b)
      BY <1>1, <1>6, <2>1, <2>2 DEF QueueInv
  <2>3. CASE b = ctl.build /\ ctl'.pc = "idle"
      BY <1>1, <1>6, <2>1, <2>3 DEF QueueInv
  <2>4. QED BY <1>6, <2>2, <2>3
<1>7. QED BY <1>2, <1>3, <1>4, <1>5, <1>6 DEF QueueInv, NoForceSignal, Cancelled, Known

(* and changes nothing in the data base *)
LEMMA CalmSame ==
    ASSUME ServiceTypes, QueueInv, UNCHANGED <<db, gw>>,
           env'.commands = env.commands,
           NoForce => NoForceSignal(bus'),
           ctl'.build \in {ctl.build, None},
           ctl.pc \in {"idle", "get_build"} => ctl'.pc \in {"idle", "get_build"}
    PROVE  QueueInv' /\ StaysCancelled
<1>1. Advanced
    BY DEF Advanced, QueueInv, AtOK
<1>2. OneQueue(db'.priority) /\ db' = db
    BY DEF QueueInv
<1>3. QueueInv'
    BY <1>1, <1>2, CalmStep
<1>4. QED BY <1>3 DEF StaysCancelled

LEMMA HandleQueues ==
    ASSUME QueuesOnce, ServiceTypes, QueueInv, NEW b \in Builds, NEW t \in Triggers, Handle(b, t)
    PROVE  QueueInv' /\ StaysCancelled
<1> DEFINE at == gw[b][t].at
           a == TriggerTranslator[t][at]
<1>1. RecordsThere(db) /\ BusOK(bus) /\ GatewayOK /\ AtOK /\ OneQueue(db.priority)
    BY DEF ServiceTypes, QueueInv
<1>2. /\ Advanced /\ at \in DOMAIN TriggerTranslator[t] /\ at \in Nat
      /\ gw'[b][t].at > at /\ gw'[b][t].at \in Nat
    BY <1>1, HandleAdvances DEF AtOK, Advanced
<1>3. UNCHANGED <<ctl, env>>
    BY DEF Handle
<1>4. CASE Raises(a, b)
  <2>1. UNCHANGED <<db, bus>>
      BY <1>4 DEF Handle
  <2>2. QueueInv'
      BY <1>1, <1>2, <1>3, <2>1, CalmStep DEF QueueInv
  <2>3. QED BY <2>1, <2>2 DEF StaysCancelled
<1>5. CASE ~Raises(a, b)
  <2>1. /\ db' = AfterAction(a, b)
        /\ bus' = bus \o Emitted(a, b, gw[b][t].was_pending)
      BY <1>5 DEF Handle
  <2>2. a = "priority_add" => ~Added(b)
      BY <1>2 DEF Added
  <2>3. a = "priority_add" => Added(b)'
    <3> SUFFICES ASSUME a = "priority_add", NEW u \in Triggers,
                        NEW i \in DOMAIN TriggerTranslator[u],
                        TriggerTranslator[u][i] = "priority_add"
                 PROVE  gw'[b][u].at > i
        BY DEF Added
    <3>1. u = t /\ i = at
        BY <1>2 DEF QueuesOnce
    <3>2. QED BY <1>2, <3>1
  <2> HIDE DEF a, at
  <2>4. a = "priority_add" => b \notin Queue(db.priority)
      BY <2>2 DEF QueueInv
  <2>5. Effect(a, b, db')
      BY <1>1, <1>5, <2>1, <2>4, ActionEffects
  <2>6. NoForce => NoForceSignal(bus')
    <3>1. gw[b][t].was_pending \in BOOLEAN
        BY <1>1 DEF GatewayOK
    <3>2. QED BY <1>1, <2>1, <3>1, NoForceEmitted DEF QueueInv
  <2>7. QueueInv'
      BY <1>2, <1>3, <2>2, <2>3, <2>5, <2>6, CalmStep DEF Effect, CancelledAlike
  <2>8. StaysCancelled
      BY <2>5 DEF Effect, CancelledAlike, StaysCancelled
  <2>9. QED BY <2>7, <2>8
<1>6. QED BY <1>4, <1>5

LEMMA CommandQueues ==
    ASSUME ServiceTypes, QueueInv, NEW c \in env.commands, NEW b \in Builds \cup {None},
           Command(c, b)
    PROVE  QueueInv' /\ StaysCancelled
<1>1. env \in Scenario /\ bus \in Seq(Signals)
    BY DEF ServiceTypes, BusOK
<1>2. c \in {"pause", "resume", "force_build"}
    BY <1>1 DEF Scenario
<1>3. /\ UNCHANGED <<db, gw, ctl>> /\ bus' = Append(bus, Sig(c, b, FALSE))
      /\ env' = [env EXCEPT !.cli = @ - 1]
    BY DEF Command
<1>4. env'.commands = env.commands
    BY <1>1, <1>3 DEF Scenario
<1>5. NoForce => NoForceSignal(bus')
  <2> DEFINE s == Sig(c, b, FALSE)
  <2>1. s \in Signals /\ s.name = c
      BY <1>2 DEF Sig, Signals
  <2>2. bus' = Append(bus, s)
      BY <1>3
  <2> HIDE DEF s
  <2>3. NoForce => c # "force_build"
      BY DEF NoForce
  <2>4. QED BY <1>1, <2>1, <2>2, <2>3, NoForceSent DEF QueueInv
<1>6. QED BY <1>3, <1>4, <1>5, CalmSame

(* the signals a step of the controller takes and sends *)
LEMMA NoForceAnswers ==
    ASSUME ServiceTypes, QueueInv, bus # <<>>, NoForce
    PROVE  /\ Head(bus).name # "force_build"
           /\ NoForceSignal(Tail(bus))
           /\ NoForceSignal(Append(Tail(bus), Check))
<1>1. BusOK(bus) /\ NoForceSignal(bus)
    BY DEF ServiceTypes, QueueInv
<1>2. NoForceSignal(Tail(bus)) /\ Head(bus).name # "force_build" /\ Tail(bus) \in Seq(Signals)
    BY <1>1, NoForceTaken, SignalTaken DEF BusOK
<1>3. Check \in Signals /\ Check.name = "check_priority_list"
    BY DEF Check, Sig, Signals
<1>4. QED BY <1>2, <1>3, NoForceSent

LEMMA ControllerQueues ==
    ASSUME ServiceTypes, QueueInv,
           \/ check_priority_list \/ prepare \/ prepare_fails \/ wait_start \/ start_failed
           \/ set_test_to_faulty \/ priority_increased \/ test_tool_ready_for_new_build
           \/ test_tool_shutdown \/ pause \/ resume
    PROVE  QueueInv' /\ StaysCancelled
<1>1. ctl \in Controller /\ RecordsThere(db)
    BY DEF ServiceTypes
<1>2. Advanced \/ ~UNCHANGED gw
    BY DEF Advanced, QueueInv, AtOK
<1>3. ASSUME Ignore, bus # <<>> PROVE QueueInv' /\ StaysCancelled
    BY <1>3, NoForceAnswers, CalmSame DEF Ignore
<1>4. CASE check_priority_list
  <2>1. bus # <<>> /\ ctl.pc = "idle"
      BY <1>4 DEF check_priority_list, Takes
  <2>2. CASE Ignore
      BY <1>3, <2>1, <2>2
  <2>3. CASE ~Ignore
    <3>1. /\ UNCHANGED <<db, gw, env>> /\ bus' = Tail(bus)
          /\ ctl' = ctl \/ ctl' = [ctl EXCEPT !.pc = "get_build"]
        BY <1>4, <2>3 DEF check_priority_list
    <3>2. ctl'.build = ctl.build /\ ctl'.pc \in {"idle", "get_build"}
        BY <1>1, <2>1, <3>1 DEF Controller
    <3>3. QED BY <2>1, <3>1, <3>2, NoForceAnswers, CalmSame
  <2>4. QED BY <2>2, <2>3
<1>5. CASE prepare \/ prepare_fails
  <2>1. /\ UNCHANGED <<db, gw, bus, env>> /\ ctl.pc = "prepare"
        /\ ctl'.build = ctl.build
      BY <1>1, <1>5 DEF prepare, prepare_fails, Controller
  <2>2. QED BY <2>1, CalmSame DEF QueueInv
<1>6. ASSUME NEW s \in {"TEST_ONGOING", "TEST_FAULTY", "CANCELLED"},
             db' = db \/ db' = StatusAfter(s), UNCHANGED <<gw, env>>,
             NoForce => NoForceSignal(bus'),
             ctl'.build \in {ctl.build, None}, ctl'.pc = "idle",
             ctl.pc \in {"idle", "get_build"} => s = "CANCELLED"
      PROVE  QueueInv' /\ StaysCancelled
  <2>1. /\ db'.priority = db.priority
        /\ \A c \in Builds :
               /\ Cancelled(db', c) => Cancelled(db, c) \/ (c = ctl.build /\ s = "CANCELLED")
               /\ Cancelled(db, c) => Cancelled(db', c) \/ (c = ctl.build /\ s # "CANCELLED")
      BY <1>1, <1>6, StatusEffect
  <2>2. QueueInv'
      BY <1>2, <1>6, <2>1, CalmStep DEF QueueInv
  <2>3. ASSUME NoForce, NEW b \in Builds, Cancelled(db, b) PROVE Cancelled(db', b)
      BY <1>6, <2>1, <2>3 DEF QueueInv
  <2>4. QED BY <2>2, <2>3 DEF StaysCancelled
<1>7. CASE wait_start
  <2>1. /\ UNCHANGED <<gw, bus, env>> /\ ctl.pc = "wait" /\ ctl'.build = ctl.build
        /\ \/ db' = db /\ ctl'.pc = "faulty"
           \/ db' = StatusAfter("TEST_ONGOING") /\ ctl'.pc = "idle"
      BY <1>1, <1>7 DEF wait_start, Controller
  <2>2. CASE db' = db
      BY <2>1, <2>2, CalmSame DEF QueueInv
  <2>3. CASE db' = StatusAfter("TEST_ONGOING") /\ ctl'.pc = "idle"
      BY <1>6, <2>1, <2>3 DEF QueueInv
  <2>4. QED BY <2>1, <2>2, <2>3
<1>8. CASE start_failed
  <2>1. /\ UNCHANGED <<gw, bus, env>> /\ ctl.pc = "faulty" /\ ctl'.build = None
        /\ db' = StatusAfter("TEST_FAULTY") /\ ctl'.pc = "idle"
      BY <1>1, <1>8 DEF start_failed, Controller
  <2>2. QED BY <1>6, <2>1 DEF QueueInv
<1>9. CASE set_test_to_faulty
  <2>1. bus # <<>> /\ ctl.pc = "idle"
      BY <1>9 DEF set_test_to_faulty, Takes
  <2>2. CASE Ignore
      BY <1>3, <2>1, <2>2
  <2>3. CASE ~Ignore
    <3>1. /\ UNCHANGED <<gw, env>> /\ bus' = Append(Tail(bus), Check)
          /\ db' = StatusAfter("CANCELLED") /\ ctl'.build = ctl.build /\ ctl'.pc = ctl.pc
        BY <1>1, <1>9, <2>3 DEF set_test_to_faulty, Controller
    <3>2. QED BY <1>6, <2>1, <3>1, NoForceAnswers
  <2>4. QED BY <2>2, <2>3
<1>10. CASE priority_increased
  <2>1. bus # <<>> /\ ctl.pc = "idle"
      BY <1>10 DEF priority_increased, Takes
  <2>2. CASE Ignore
      BY <1>3, <2>1, <2>2
  <2>3. CASE ~Ignore
    <3>1. /\ UNCHANGED <<db, gw, env>> /\ bus' \in {Tail(bus), Append(Tail(bus), Check)}
          /\ ctl'.build = ctl.build /\ ctl'.pc = ctl.pc
        BY <1>1, <1>10, <2>3 DEF priority_increased, Controller
    <3>2. QED BY <2>1, <3>1, NoForceAnswers, CalmSame
  <2>4. QED BY <2>2, <2>3
<1>11. CASE test_tool_ready_for_new_build
  <2>1. bus # <<>> /\ ctl.pc = "idle"
      BY <1>11 DEF test_tool_ready_for_new_build, Takes
  <2>2. /\ UNCHANGED <<db, gw, env>> /\ bus' \in {Tail(bus), Append(Tail(bus), Check)}
        /\ ctl'.build = ctl.build /\ ctl'.pc = ctl.pc
      BY <1>1, <1>11 DEF test_tool_ready_for_new_build, Controller
  <2>3. QED BY <2>1, <2>2, NoForceAnswers, CalmSame
<1>12. CASE test_tool_shutdown
  <2> DEFINE b == Head(bus).build
  <2>1. bus # <<>> /\ ctl.pc = "idle"
      BY <1>12 DEF test_tool_shutdown, Takes
  <2>2. /\ UNCHANGED <<gw, env>> /\ bus' \in {Tail(bus), Append(Tail(bus), Check)}
        /\ ctl'.build \in {ctl.build, None} /\ ctl'.pc = ctl.pc
      BY <1>1, <1>12 DEF test_tool_shutdown, Controller
  <2>3. db' = IF b \in Known(db) THEN add_build_test_result(db, b, TheResult) ELSE db
      BY <1>12 DEF test_tool_shutdown, TheResult
  <2>4. db'.priority = db.priority /\ CancelledAlike(db, db')
      BY <1>1, <2>3, ResultEffect
  <2>5. QueueInv'
      BY <1>2, <2>1, <2>2, <2>4, NoForceAnswers, CalmStep DEF QueueInv, CancelledAlike
  <2>6. QED BY <2>4, <2>5 DEF StaysCancelled, CancelledAlike
<1>13. CASE pause \/ resume
  <2>1. bus # <<>> /\ ctl.pc = "idle"
      BY <1>13 DEF pause, resume, Takes
  <2>2. CASE Ignore
      BY <1>3, <2>1, <2>2
  <2>3. CASE ~Ignore
    <3>1. /\ UNCHANGED <<db, gw, env>> /\ bus' \in {Tail(bus), Append(Tail(bus), Check)}
          /\ ctl'.build = ctl.build /\ ctl'.pc = ctl.pc
        BY <1>1, <1>13, <2>3 DEF pause, resume, Controller
    <3>2. QED BY <2>1, <3>1, NoForceAnswers, CalmSame
  <2>4. QED BY <2>2, <2>3
<1>14. QED BY <1>4, <1>5, <1>7, <1>8, <1>9, <1>10, <1>11, <1>12, <1>13

LEMMA GetBuildQueues ==
    ASSUME ServiceTypes, QueueInv, get_build
    PROVE  QueueInv' /\ StaysCancelled
<1>0. PICK b : b = find_next_build(db)[1]
    OBVIOUS
<1>1. ctl \in Controller /\ RecordsThere(db) /\ OneQueue(db.priority)
    BY DEF ServiceTypes, QueueInv
<1>2. UNCHANGED <<gw, bus, env>> /\ ctl.pc = "get_build"
    BY DEF get_build
<1>3. Advanced
    BY <1>2 DEF Advanced, QueueInv, AtOK
<1>4. CASE b = None
  <2>1. db' = db /\ ctl'.build = None /\ ctl'.pc = "idle"
      BY <1>0, <1>1, <1>4 DEF get_build, Controller
  <2>2. QED BY <1>2, <2>1, CalmSame DEF QueueInv
<1>5. CASE b # None
  <2>1. db' = extract(db)
      BY <1>0, <1>5 DEF get_build
  <2>2. /\ b \in Queue(db.priority) /\ OneQueue(db'.priority)
        /\ Queue(db'.priority) = Queue(db.priority) \ {b}
      BY <1>0, <1>1, <1>5, <2>1, ExtractQueue
  <2>3. RecordsAlike(db, db') /\ Known(db') = Known(db)
      BY <1>1, <2>1, ExtractRequest, SameInfoAlike
  <2>4. StaysCancelled
      BY <2>3 DEF StaysCancelled, RecordsAlike, CancelledAlike
  <2>5. CASE b \notin Known(db)
    <3>1. ctl'.build = ctl.build /\ ctl'.pc = "idle"
        BY <1>0, <1>1, <1>5, <2>5 DEF get_build, Controller
    <3>2. QueueInv'
        BY <1>2, <1>3, <2>2, <2>3, <3>1, CalmStep
           DEF QueueInv, RecordsAlike, CancelledAlike
    <3>3. QED BY <2>4, <3>2
  <2>6. CASE b \in Known(db)
    <3>1. ctl'.build = b /\ ctl'.pc = "prepare"
        BY <1>0, <1>1, <1>5, <2>6 DEF get_build, Controller
    <3>2. /\ \A c \in Builds : Added(c)' <=> Added(c)
          /\ NoForce' <=> NoForce
          /\ AtOK' /\ NoForceSignal(bus)' = NoForceSignal(bus)
        BY <1>2 DEF Added, NoForce, AtOK, QueueInv, NoForceSignal
    <3>3. Queue(db.priority) \subseteq Builds
        BY DEF Queue
    <3>4. \A c \in Queue(db'.priority) : Added(c)'
        BY <2>2, <3>2, <3>3 DEF QueueInv
    <3>5. Added(b)' /\ b \notin Queue(db'.priority)
        BY <2>2, <3>2, <3>3 DEF QueueInv
    <3>6. ASSUME NoForce, NEW c \in Builds, Cancelled(db', c)
          PROVE  Added(c)' /\ c \notin Queue(db'.priority) /\ c # b
      <4>1. Cancelled(db, c)
          BY <2>3, <3>6 DEF RecordsAlike, CancelledAlike
      <4>2. QED BY <2>2, <3>2, <3>6, <4>1 DEF QueueInv
    <3>7. QueueInv'
        BY <2>2, <3>1, <3>2, <3>4, <3>5, <3>6 DEF QueueInv, Cancelled, Known
    <3>8. QED BY <2>4, <3>7
  <2>7. QED BY <2>5, <2>6
<1>6. QED BY <1>4, <1>5

LEMMA ForceBuildQueues ==
    ASSUME ServiceTypes, QueueInv, force_build
    PROVE  QueueInv' /\ StaysCancelled
<1> DEFINE b == Head(bus).build
<1>1. bus # <<>> /\ Head(bus).name = "force_build" /\ UNCHANGED <<gw, env>>
    BY DEF force_build, Takes, Ignore
<1>2. ~NoForce /\ ~NoForce'
    BY <1>1, NoForceAnswers DEF NoForce
<1>3. b \in Builds /\ RecordsThere(db) /\ OneQueue(db.priority)
    BY <1>1, SignalTaken DEF ServiceTypes, QueueInv
<1>4. db' = db \/ db' = priority_del(db, b, FALSE)
    BY DEF force_build, Ignore
<1> HIDE DEF b
<1>5. OneQueue(db'.priority) /\ Queue(db'.priority) \subseteq Queue(db.priority)
    BY <1>3, <1>4, PriorityDelQueue DEF QueueInv
<1>6. AtOK' /\ \A c : Added(c)' <=> Added(c)
    BY <1>1 DEF Added, AtOK, QueueInv
<1>7. QED BY <1>2, <1>5, <1>6 DEF QueueInv, StaysCancelled

(* the handler threads and the tools *)
LEMMA RunFrame ==
    ASSUME ServiceTypes, NEW r \in DOMAIN runs,
           RunStep(r) \/ read_udp_cmd(r) \/ launch_dies(r) \/ sees_eof(r) \/ tool_dies(r)
    PROVE  /\ UNCHANGED <<db, gw, ctl, env>>
           /\ \/ bus' = bus
              \/ \E n \in {"test_tool_shutdown", "test_tool_ready_for_new_build"} :
                     bus' = Append(bus, Sig(n, runs[r].build, FALSE))
<1>1. launch(r) \/ launch_dies(r) \/ sees_start(r) \/ sees_prompt(r) \/ sees_eof(r)
      => UNCHANGED <<db, gw, ctl, env, bus>>
    BY DEF launch, launch_dies, Cleans, sees_start, sees_prompt, sees_eof
<1>2. next_text_case(r) \/ initialize(r) \/ pauses(r)
      \/ leaves_loop(r) \/ read_udp_cmd(r) \/ tool_dies(r)
      => UNCHANGED <<db, gw, ctl, env, bus>>
    BY DEF next_text_case, initialize, pauses, leaves_loop, read_udp_cmd, tool_dies
<1>3. ASSUME tool_opens(r) \/ quit_program(r)
      PROVE  /\ UNCHANGED <<db, gw, ctl, env>>
             /\ \/ bus' = bus
                \/ bus' = Append(bus, Sig("test_tool_shutdown", runs[r].build, FALSE))
    BY <1>3 DEF tool_opens, quit_program
<1>4. ASSUME NEW o, test_case_ends(r, o)
      PROVE  /\ UNCHANGED <<db, gw, ctl, env>>
             /\ \/ bus' = bus
                \/ bus' = Append(bus, Sig("test_tool_ready_for_new_build",
                                          runs[r].build, FALSE))
    BY <1>4 DEF test_case_ends
<1>5. QED BY <1>1, <1>2, <1>3, <1>4 DEF RunStep

LEMMA RunQueues ==
    ASSUME ServiceTypes, QueueInv, NEW r \in DOMAIN runs,
           RunStep(r) \/ read_udp_cmd(r) \/ launch_dies(r) \/ sees_eof(r) \/ tool_dies(r)
    PROVE  QueueInv' /\ StaysCancelled
<1>1. UNCHANGED <<db, gw, ctl, env>>
    BY RunFrame
<1>2. bus \in Seq(Signals) /\ runs[r].build \in Builds
  <2>1. runs[r] \in Run
      BY DEF ServiceTypes
  <2>2. QED BY <2>1 DEF ServiceTypes, BusOK, Run
<1>3. ASSUME NEW n \in {"test_tool_shutdown", "test_tool_ready_for_new_build"},
             bus' = Append(bus, Sig(n, runs[r].build, FALSE)), NoForce
      PROVE  NoForceSignal(bus')
  <2> DEFINE s == Sig(n, runs[r].build, FALSE)
  <2>1. s \in Signals /\ s.name = n
      BY <1>2 DEF Sig, Signals
  <2>2. bus' = Append(bus, s)
      BY <1>3
  <2> HIDE DEF s
  <2>3. QED BY <1>2, <1>3, <2>1, <2>2, NoForceSent DEF QueueInv
<1>4. NoForce => NoForceSignal(bus')
    BY <1>3, RunFrame DEF QueueInv
<1>5. QED BY <1>1, <1>4, CalmSame

LEMMA StepQueues ==
    ASSUME QueuesOnce, ServiceInv, QueueInv, [ServiceNext]_serviceVars
    PROVE  QueueInv' /\ StaysCancelled
<1>1. ServiceTypes
    BY DEF ServiceInv
<1>2. CASE UNCHANGED serviceVars
    BY <1>1, <1>2, CalmSame DEF serviceVars, QueueInv
<1>3. ASSUME NEW b \in Builds, NEW t \in env.triggers, Handle(b, t)
      PROVE  QueueInv' /\ StaysCancelled
  <2>1. t \in Triggers
      BY <1>1, <1>3 DEF ServiceTypes, Scenario
  <2>2. QED BY <1>1, <1>3, <2>1, HandleQueues
<1>4. ASSUME NEW c \in env.commands, NEW b \in Builds \cup {None}, Command(c, b)
      PROVE  QueueInv' /\ StaysCancelled
    BY <1>1, <1>4, CommandQueues
<1>5. CASE ControllerStep \/ prepare_fails
    BY <1>1, <1>5, ControllerQueues, GetBuildQueues, ForceBuildQueues DEF ControllerStep
<1>6. ASSUME NEW r \in DOMAIN runs, RunStep(r) \/ read_udp_cmd(r) \/ launch_dies(r)
                                    \/ sees_eof(r) \/ tool_dies(r)
      PROVE  QueueInv' /\ StaysCancelled
    BY <1>1, <1>6, RunQueues
<1>7. QED BY <1>2, <1>3, <1>4, <1>5, <1>6 DEF ServiceNext

LEMMA QueueInvHolds ==
    ASSUME QueuesOnce
    PROVE  ServiceSpec => []QueueInv
<1>1. ServiceInit => QueueInv
  <2> SUFFICES ASSUME ServiceInit PROVE QueueInv
      OBVIOUS
  <2>1. /\ db = EmptyDB /\ bus = <<>> /\ ctl.build = None
        /\ gw = [b \in Builds |->
                    [t \in Triggers |->
                        [at |-> 1, was_pending |-> FALSE, dropped |-> {}]]]
      BY DEF ServiceInit
  <2>2. AtOK
      BY <2>1 DEF AtOK
  <2>3. DOMAIN db.priority = {} /\ Known(db) = {}
      BY <2>1 DEF EmptyDB, NoEntries, Known
  <2>4. OneQueue(db.priority) /\ Queue(db.priority) = {}
    <3>1. IsFiniteSet({})
        BY FS_EmptySet
    <3>2. QED BY <2>3, <3>1 DEF OneQueue, Queue
  <2>5. NoForceSignal(bus) /\ \A b \in Builds : ~Cancelled(db, b)
      BY <2>1, <2>3 DEF NoForceSignal, Cancelled
  <2>6. QED BY <2>1, <2>2, <2>4, <2>5 DEF QueueInv
<1>2. QueueInv /\ ServiceInv /\ [ServiceNext]_serviceVars => QueueInv'
    BY StepQueues
<1>3. QED BY <1>1, <1>2, ServiceInvHolds, PTL DEF ServiceSpec

(* For any builds, scenarios and lists of triggers that queue a build at    *)
(* one place only: as long as the operator forces no build, a build that    *)
(* was withdrawn while under test stays CANCELLED until its record goes.    *)
THEOREM CancelledForGood ==
    ASSUME QueuesOnce
    PROVE  ServiceSpec => CancelledStays
<1> DEFINE Kept == \A b \in Known(db) :
               /\ db.build_info[b].status = "CANCELLED"
               /\ b \in Known(db)'
               /\ "force_build" \notin env.commands
               => db'.build_info[b].status = "CANCELLED"
<1>1. ASSUME ServiceInv, QueueInv, [ServiceNext]_serviceVars PROVE [Kept]_serviceVars
  <2>1. StaysCancelled
      BY <1>1, StepQueues
  <2>2. Known(db) \subseteq Builds /\ Known(db)' = Known(db')
      BY <1>1 DEF ServiceInv, ServiceTypes, RecordsThere, Known
  <2>3. Kept
      BY <2>1, <2>2 DEF StaysCancelled, NoForce, Cancelled
  <2>4. QED BY <2>3
<1>2. QED BY <1>1, ServiceInvHolds, QueueInvHolds, PTL DEF ServiceSpec, CancelledStays

----------------------------------------------------------------------------
(* No build is forgotten.                                                   *)

(* Somebody else than the controller will look after b, or nobody has to. *)
Left(b) == b \in Queue(db.priority) \/ Dropped(b) \/ Announces(bus, b)

UntestedInv ==
    /\ ResultLists(db)
    /\ env.failures = {} \/ NoForce
    /\ \A b \in Known(db) : gw[b]["new_build"].at >= 2
    /\ \A b \in Builds : Announced(b) /\ Untested(db, b) => ctl.build = b \/ Left(b)

(* The build in the hands of the controller: between tests it is the one   *)
(* of the last run; a test started from the queue gets a status, that of a *)
(* forced build may not, but then the end of its test is announced.        *)
HandsInv ==
    /\ ctl.pc \in {"idle", "get_build"} /\ ctl.build # None =>
           ctl.handler # 0 /\ ctl.build = runs[ctl.handler].build
    /\ NoForce =>
           /\ ctl.pc # "idle" => ~ctl.paused
           /\ ctl.pc \in {"idle", "get_build"} /\ ctl.build # None /\ Announced(ctl.build)
                  => ~NotTested(db, ctl.build)
    /\ ~NoForce /\ ctl.pc = "faulty" => Announces(bus, ctl.build)

KeptInv == UntestedInv /\ HandsInv

LEMMA OrderedListsQueueOnce == ListsInOrder => QueuesOnce
BY DEF ListsInOrder, QueuesOnce

LEMMA AddedMeans ==
    ASSUME ListsInOrder, NEW b \in Builds, AtOK
    PROVE  Added(b) <=> gw[b]["new_build"].at > 2
<1>1. /\ DOMAIN TriggerTranslator["new_build"] = 1 .. Len(TriggerTranslator["new_build"])
      /\ Len(TriggerTranslator["new_build"]) \in Nat
    BY ServiceAssumption DEF ListsInOrder
<1>2. 2 \in DOMAIN TriggerTranslator["new_build"]
    BY <1>1 DEF ListsInOrder
<1>3. QED BY <1>2 DEF ListsInOrder, Added

LEMMA AnnouncedMeans ==
    ASSUME ListsInOrder, NEW b \in Builds, AtOK
    PROVE  Announced(b) <=> b \in Known(db) /\ Added(b)
BY AddedMeans DEF Announced

(* What one action drops stays dropped. *)
LEMMA DroppedStays ==
    ASSUME GatewayOK, AtOK, NEW b \in Builds, NEW t \in Triggers, Handle(b, t),
           NEW a, a = TriggerTranslator[t][gw[b][t].at]
    PROVE  /\ \A c : Dropped(c) => Dropped(c)'
           /\ ~Raises(a, b) => \A c \in DroppedBy(a, b) : Dropped(c)'
<1>1. \A c \in Builds, u \in Triggers : c # b \/ u # t => gw'[c][u] = gw[c][u]
    BY HandleAdvances
<1>2. CASE Raises(a, b)
  <2> DEFINE v == [gw[b][t] EXCEPT !.at = Len(TriggerTranslator[t]) + 1]
  <2>1. gw' = [gw EXCEPT ![b][t] = v]
      BY <1>2 DEF Handle
  <2>2. v.dropped = gw[b][t].dropped
      BY DEF GatewayOK
  <2> HIDE DEF v
  <2>3. gw'[b][t].dropped = gw[b][t].dropped
      BY <2>1, <2>2 DEF GatewayOK
  <2>4. QED BY <1>1, <1>2, <2>3 DEF Dropped
<1>3. CASE ~Raises(a, b)
  <2> DEFINE S == gw[b][t].dropped \cup DroppedBy(a, b)
             v == [at |-> gw[b][t].at + 1,
                   was_pending |-> a = "priority_increase" /\ IsPending(b),
                   dropped |-> S]
  <2>1. gw' = [gw EXCEPT ![b][t] = v]
      BY <1>3 DEF Handle
  <2>2. v.dropped = S
      OBVIOUS
  <2> HIDE DEF v
  <2>3. gw'[b][t].dropped = S
      BY <2>1, <2>2 DEF GatewayOK
  <2>4. QED BY <1>1, <2>3 DEF Dropped
<1>4. QED BY <1>2, <1>3

LEMMA HandleKeepsUntested ==
    ASSUME ListsInOrder, ServiceInv, QueueInv, KeptInv,
           NEW b \in Builds, NEW t \in Triggers, Handle(b, t)
    PROVE  KeptInv'
<1> DEFINE at == gw[b][t].at
           a == TriggerTranslator[t][at]
<1>1. /\ RecordsThere(db) /\ BusOK(bus) /\ GatewayOK /\ AtOK /\ OneQueue(db.priority)
      /\ ctl \in Controller /\ env \in Scenario
    BY DEF ServiceInv, ServiceTypes, QueueInv
<1>2. /\ Advanced /\ at \in DOMAIN TriggerTranslator[t] /\ at \in Nat
      /\ gw'[b][t].at > at /\ gw'[b][t].at \in Nat
      /\ \A c \in Builds, u \in Triggers : c # b \/ u # t => gw'[c][u] = gw[c][u]
    BY <1>1, HandleAdvances DEF AtOK, Advanced
<1>3. UNCHANGED <<ctl, env, runs>> /\ (NoForce' <=> NoForce)
    BY DEF Handle, NoForce
<1>4. AtOK' /\ "new_build" \in Triggers
    BY <1>2 DEF Advanced, AtOK, ListsInOrder
<1>5. /\ a = "build_info_add" => t = "new_build" /\ at = 1
      /\ a = "priority_add" <=> t = "new_build" /\ at = 2
      /\ t = "new_build" /\ at = 1 => a = "build_info_add"
    BY <1>2 DEF ListsInOrder
<1>6. /\ \A c : Dropped(c) => Dropped(c)'
      /\ ~Raises(a, b) => \A c \in DroppedBy(a, b) : Dropped(c)'
    BY <1>1, DroppedStays
<1>7. \A c \in Builds : c # b \/ t # "new_build" =>
          gw'[c]["new_build"] = gw[c]["new_build"]
    BY <1>2, <1>4
<1>8. \A c \in Builds : gw[c]["new_build"].at >= 2 => gw'[c]["new_build"].at >= 2
  <2> SUFFICES ASSUME NEW c \in Builds, gw[c]["new_build"].at >= 2
               PROVE  gw'[c]["new_build"].at >= 2
      OBVIOUS
  <2>1. /\ gw[c]["new_build"].at \in Nat /\ gw'[c]["new_build"].at \in Nat
        /\ gw'[c]["new_build"].at >= gw[c]["new_build"].at
      BY <1>1, <1>2, <1>4 DEF AtOK, Advanced
  <2>2. QED BY <2>1
<1> HIDE DEF a, at
<1>9. CASE Raises(a, b)
  <2>1. UNCHANGED <<db, bus>>
      BY <1>9 DEF Handle, a, at
  <2>2. ASSUME NEW c \in Builds, Announced(c)' PROVE Announced(c)
    <3>1. c \in Known(db) /\ gw'[c]["new_build"].at > 2
        BY <2>1, <2>2 DEF Announced, Known
    <3>2. CASE c # b \/ t # "new_build"
        BY <1>7, <3>1, <3>2 DEF Announced
    <3>3. CASE c = b /\ t = "new_build"
      <4>1. at >= 2
          BY <3>1, <3>3 DEF KeptInv, UntestedInv, at
      <4>2. at # 2
          BY <1>5, <1>9, <3>1, <3>3 DEF Raises
      <4>3. at > 2
          BY <1>2, <4>1, <4>2
      <4>4. QED BY <3>1, <3>3, <4>3 DEF Announced, at
    <3>4. QED BY <3>2, <3>3
  <2>3. \A c \in Builds : Left(c) => Left(c)'
      BY <1>6, <2>1 DEF Left, Announces
  <2>4. UntestedInv'
    <3>1. \A c \in Builds : Announced(c)' /\ Untested(db', c) => ctl'.build = c \/ Left(c)'
        BY <1>3, <2>1, <2>2, <2>3 DEF KeptInv, UntestedInv
    <3>2. \A c \in Known(db') : gw'[c]["new_build"].at >= 2
        BY <1>1, <1>8, <2>1 DEF KeptInv, UntestedInv, RecordsThere
    <3>3. ResultLists(db') /\ (env'.failures = {} \/ NoForce')
        BY <1>3, <2>1 DEF KeptInv, UntestedInv
    <3>4. QED BY <3>1, <3>2, <3>3
             DEF UntestedInv, ResultLists, Known, Untested, NotTested
  <2>5. HandsInv'
    <3>1. ctl.build # None /\ Announced(ctl.build)' => Announced(ctl.build)
        BY <1>1, <1>3, <2>2 DEF Controller
    <3>2. QED BY <1>3, <2>1, <3>1 DEF KeptInv, HandsInv, Announces, NotTested
  <2>6. QED BY <2>4, <2>5 DEF KeptInv
<1>10. CASE ~Raises(a, b)
  <2>1. /\ db' = AfterAction(a, b)
        /\ bus' = bus \o Emitted(a, b, gw[b][t].was_pending)
      BY <1>10 DEF Handle, a, at
  <2>2. a = "priority_add" => b \notin Queue(db.priority)
    <3>1. a = "priority_add" => ~(gw[b]["new_build"].at > 2)
        BY <1>5 DEF at
    <3>2. b \in Queue(db.priority) => gw[b]["new_build"].at > 2
        BY <1>1, AddedMeans DEF QueueInv
    <3>3. QED BY <3>1, <3>2
  <2>3. Effect(a, b, db')
      BY <1>1, <1>10, <2>1, <2>2, ActionEffects
  <2>4. \A c \in Builds \cup {None} : Announces(bus', c) <=> Announces(bus, c)
    <3>1. gw[b][t].was_pending \in BOOLEAN
        BY <1>1 DEF GatewayOK
    <3>2. SameBus
        BY <1>1, <2>1, <3>1, EmittedSame
    <3>3. QED BY <3>2 DEF SameBus
  <2>5. ASSUME NEW c \in Builds, Announced(c)', Untested(db', c)
        PROVE  \/ Announced(c) /\ Untested(db, c)
               \/ Dropped(c)' \/ c \in Queue(db'.priority)
    <3>1. c \in Known(db') /\ gw'[c]["new_build"].at > 2
        BY <2>5 DEF Announced, Known
    <3>2. CASE c \in DroppedBy(a, b)
        BY <1>6, <1>10, <3>2
    <3>3. CASE a = "priority_add" /\ c = b
        BY <2>3, <3>3 DEF Effect
    <3>4. CASE c \notin DroppedBy(a, b) /\ ~(a = "priority_add" /\ c = b)
      <4>1. ~(c = b /\ a = "build_info_add")
        <5>1. ASSUME c = b, a = "build_info_add" PROVE FALSE
          <6>1. gw'[b]["new_build"].at = 2
              BY <1>1, <1>5, <1>10, <5>1 DEF Handle, GatewayOK, a, at
          <6>2. QED BY <3>1, <5>1, <6>1
        <5>2. QED BY <5>1
      <4>2. c \in Known(db) /\ Untested(db, c)
          BY <2>3, <2>5, <3>1, <3>4, <4>1 DEF Effect
      <4>3. CASE c # b \/ t # "new_build"
          BY <1>7, <3>1, <4>2, <4>3 DEF Announced
      <4>4. CASE c = b /\ t = "new_build"
        <5>1. at >= 2
            BY <4>2, <4>4 DEF KeptInv, UntestedInv, at
        <5>2. at # 2
            BY <1>5, <3>4, <4>4
        <5>3. at > 2
            BY <1>2, <5>1, <5>2
        <5>4. QED BY <4>2, <4>4, <5>3 DEF Announced, at
      <4>5. QED BY <4>3, <4>4
    <3>5. QED BY <3>2, <3>3, <3>4
  <2>6. ASSUME NEW c \in Builds, Left(c), Untested(db', c) PROVE Left(c)'
    <3>1. CASE Dropped(c) \/ Announces(bus, c)
        BY <1>6, <2>4, <3>1 DEF Left, Announces
    <3>2. CASE c \in Queue(db.priority)
      <4>1. CASE c \in Queue(db'.priority)
          BY <4>1 DEF Left
      <4>2. CASE c \in DroppedBy(a, b)
          BY <1>6, <1>10, <4>2 DEF Left
      <4>3. QED BY <2>3, <2>6, <3>2, <4>1, <4>2 DEF Effect
    <3>3. QED BY <2>6, <3>1, <3>2 DEF Left
  <2>7. UntestedInv'
    <3>1. ASSUME NEW c \in Builds, Announced(c)', Untested(db', c)
          PROVE  ctl'.build = c \/ Left(c)'
      <4>1. CASE Dropped(c)' \/ c \in Queue(db'.priority)
          BY <4>1 DEF Left
      <4>2. CASE Announced(c) /\ Untested(db, c)
        <5>1. ctl.build = c \/ Left(c)
            BY <4>2 DEF KeptInv, UntestedInv
        <5>2. QED BY <1>3, <2>6, <3>1, <5>1
      <4>3. QED BY <2>5, <3>1, <4>1, <4>2
    <3>2. ASSUME NEW c \in Known(db') PROVE gw'[c]["new_build"].at >= 2
      <4>1. CASE c \in Known(db)
          BY <1>1, <1>8, <4>1 DEF KeptInv, UntestedInv, RecordsThere
      <4>2. CASE c = b /\ a = "build_info_add"
        <5>1. gw'[b]["new_build"].at > 1 /\ gw'[b]["new_build"].at \in Nat
            BY <1>2, <1>5, <4>2
        <5>2. QED BY <4>2, <5>1
      <4>3. QED BY <2>3, <4>1, <4>2 DEF Effect
    <3>3. ResultLists(db') /\ (env'.failures = {} \/ NoForce')
        BY <1>3, <2>3 DEF KeptInv, UntestedInv, Effect
    <3>4. QED BY <3>1, <3>2, <3>3
             DEF UntestedInv, ResultLists, Known, Untested, NotTested
  <2>8. HandsInv'
    <3>1. ASSUME NoForce, ctl.build # None, ctl.pc \in {"idle", "get_build"},
                 Announced(ctl.build)'
          PROVE  ~NotTested(db', ctl.build)
      <4>1. PICK c \in Builds : c = ctl.build
          BY <1>1, <3>1 DEF Controller
      <4>2. Added(c) /\ c \in Known(db')
          BY <1>3, <3>1, <4>1 DEF QueueInv, Announced, Known
      <4>3. gw[c]["new_build"].at > 2
          BY <1>1, <4>2, AddedMeans
      <4>4. ~(c = b /\ a = "build_info_add")
          BY <1>5, <4>3 DEF at
      <4>5. c \in Known(db)
          BY <2>3, <4>2, <4>4 DEF Effect
      <4>6. ~NotTested(db, c)
          BY <3>1, <4>1, <4>3, <4>5 DEF KeptInv, HandsInv, Announced
      <4>7. QED BY <2>3, <4>1, <4>2, <4>4, <4>6 DEF Effect
    <3>2. ctl.build \in Builds \cup {None}
        BY <1>1 DEF Controller
    <3>3. QED BY <1>3, <2>4, <3>1, <3>2 DEF KeptInv, HandsInv, Announces, NotTested
  <2>9. QED BY <2>7, <2>8 DEF KeptInv
<1>11. QED BY <1>9, <1>10

(* e keeps what the data base knows, and no build becomes untested in it. *)
Recorded(e) ==
    /\ Known(e) = Known(db) /\ ResultLists(e)
    /\ \A c \in Builds : Untested(e, c) => Untested(db, c)
    /\ \A c \in Known(db) : NotTested(e, c) => NotTested(db, c)

(* what is announced stays so, and runs keep their build *)
StillAnnounced ==
    \A c \in Builds \cup {None} : Announces(bus, c) => Announces(bus', c)
SameBuild ==
    ctl.handler # 0 => runs'[ctl.handler].build = runs[ctl.handler].build

LEMMA SameRecorded ==
    ASSUME ResultLists(db), NEW e, SameInfo(db, e)
    PROVE  Recorded(e)
BY DEF SameInfo, Recorded, Untested, NotTested, Known, ResultLists

(* The controller passes an untested build on, to the queue, to a test or  *)
(* to the signal that ends one.                                            *)
LEMMA HandedOver ==
    ASSUME ServiceTypes, KeptInv, UNCHANGED <<gw, env>>, Recorded(db'),
           \A c \in Builds : Announced(c) /\ Untested(db', c) =>
               /\ c \in Queue(db.priority) => c \in Queue(db'.priority) \/ ctl'.build = c
               /\ Announces(bus, c) => Announces(bus', c)
               /\ ctl.build = c => ctl'.build = c \/ Announces(bus', c)
    PROVE  /\ UntestedInv' /\ (NoForce' <=> NoForce)
           /\ \A c : Announced(c)' <=> Announced(c)
<1>1. \A c : Announced(c)' <=> Announced(c)
    BY DEF Announced, Recorded, Known
<1>2. \A c : Dropped(c)' <=> Dropped(c)
    BY DEF Dropped
<1>3. NoForce' <=> NoForce
    BY DEF NoForce
<1>4. ASSUME NEW c \in Builds, Announced(c)', Untested(db', c)
      PROVE  ctl'.build = c \/ Left(c)'
  <2>1. Announced(c) /\ Untested(db, c)
      BY <1>1, <1>4 DEF Recorded
  <2>2. ctl.build = c \/ Left(c)
      BY <2>1 DEF KeptInv, UntestedInv
  <2>3. \/ c \in Queue(db'.priority) \/ ctl'.build = c \/ Dropped(c)' \/ Announces(bus', c)
      BY <1>2, <1>4, <2>1, <2>2 DEF Left
  <2>4. QED BY <2>3 DEF Left, Announces
<1>5. \A c \in Known(db') : gw'[c]["new_build"].at >= 2
    BY DEF Recorded, KeptInv, UntestedInv
<1>6. ResultLists(db') /\ (env'.failures = {} \/ NoForce')
    BY <1>3 DEF KeptInv, UntestedInv, Recorded
<1>7. UntestedInv'
    BY <1>4, <1>5, <1>6 DEF UntestedInv, ResultLists, Known, Untested, NotTested
<1>8. QED BY <1>1, <1>3, <1>7

(* between tests, with the same build in hand *)
LEMMA IdleKept ==
    ASSUME ServiceTypes, KeptInv, UNCHANGED <<gw, env>>, Recorded(db'),
           db'.priority = db.priority, StillAnnounced, SameBuild,
           ctl.pc = "idle", ctl'.pc \in {"idle", "get_build"},
           ctl'.build = ctl.build, ctl'.handler = ctl.handler,
           ctl'.pc = "get_build" => ~ctl'.paused
    PROVE  KeptInv'
<1>1. /\ UntestedInv' /\ (NoForce' <=> NoForce)
      /\ \A c : Announced(c)' <=> Announced(c)
    BY HandedOver DEF StillAnnounced
<1>2. ctl.build # None => ctl.handler # 0 /\ ctl'.build = runs'[ctl'.handler].build
    BY DEF KeptInv, HandsInv, SameBuild
<1>3. ASSUME NoForce, ctl'.build # None, Announced(ctl.build)
      PROVE  ~NotTested(db', ctl.build)
    BY <1>3 DEF KeptInv, HandsInv, Recorded, Announced
<1>4. HandsInv'
    BY <1>1, <1>2, <1>3 DEF HandsInv, NotTested
<1>5. QED BY <1>1, <1>4 DEF KeptInv

(* the operator, the handler threads and the tools *)
LEMMA OthersKeep ==
    ASSUME ServiceTypes, KeptInv, UNCHANGED <<db, gw, ctl>>,
           env'.commands = env.commands, env'.failures = env.failures,
           StillAnnounced, SameBuild
    PROVE  KeptInv'
<1>1. ctl.build \in Builds \cup {None}
    BY DEF ServiceTypes, Controller
<1>2. NoForce' <=> NoForce
    BY DEF NoForce
<1>3. \A c : Announced(c)' <=> Announced(c)
    BY DEF Announced, Known
<1>4. \A c : Dropped(c)' <=> Dropped(c)
    BY DEF Dropped
<1>5. \A c \in Builds : Left(c) => Left(c)'
  <2> SUFFICES ASSUME NEW c \in Builds, Left(c) PROVE Left(c)'
      OBVIOUS
  <2>1. c \in Queue(db'.priority) \/ Dropped(c)' \/ Announces(bus', c)
      BY <1>4 DEF Left, StillAnnounced
  <2>2. QED BY <2>1 DEF Left, Announces
<1>6. UntestedInv'
    BY <1>2, <1>3, <1>4, <1>5
       DEF KeptInv, UntestedInv, ResultLists, Known, Untested, NotTested
<1>7. Announces(bus, ctl.build) => Announces(bus', ctl'.build)
    BY <1>1 DEF StillAnnounced
<1>8. HandsInv'
    BY <1>2, <1>3, <1>7 DEF KeptInv, HandsInv, SameBuild, NotTested, Announces
<1>9. QED BY <1>6, <1>8 DEF KeptInv

LEMMA CommandKeepsUntested ==
    ASSUME ServiceTypes, KeptInv, NEW c \in env.commands, NEW b \in Builds \cup {None},
           Command(c, b)
    PROVE  KeptInv'
<1>1. env \in Scenario /\ BusOK(bus)
    BY DEF ServiceTypes
<1>2. c \in {"pause", "resume", "force_build"} /\ (c = "force_build" => b \in Builds)
    BY <1>1 DEF Scenario, Command
<1>3. /\ UNCHANGED <<db, gw, ctl, runs>> /\ bus' = Append(bus, Sig(c, b, FALSE))
      /\ env' = [env EXCEPT !.cli = @ - 1]
    BY DEF Command
<1>4. env'.commands = env.commands /\ env'.failures = env.failures
    BY <1>1, <1>3 DEF Scenario
<1>5. StillAnnounced
  <2> DEFINE s == Sig(c, b, FALSE)
  <2>1. s \in Signals /\ s.name = c /\ s.build = b
      BY <1>2 DEF Sig, Signals
  <2>2. bus' = Append(bus, s)
      BY <1>3
  <2> HIDE DEF s
  <2>3. QED BY <1>1, <1>2, <2>1, <2>2, SignalSent DEF StillAnnounced
<1>6. SameBuild
    BY <1>3 DEF SameBuild
<1>7. QED BY <1>3, <1>4, <1>5, <1>6, OthersKeep

LEMMA RunsKeepBuild ==
    ASSUME ServiceTypes, NEW r \in DOMAIN runs,
           RunStep(r) \/ read_udp_cmd(r) \/ launch_dies(r) \/ sees_eof(r) \/ tool_dies(r)
    PROVE  SameBuild
<1>1. ctl.handler # 0 => ctl.handler \in DOMAIN runs
    BY DEF ServiceTypes
<1>2. \A q \in DOMAIN runs : runs[q] \in Run
    BY DEF ServiceTypes
<1>3. ASSUME NEW v, v.build = runs[r].build, runs' = [runs EXCEPT ![r] = v]
      PROVE  SameBuild
    BY <1>1, <1>3 DEF SameBuild
<1> DEFINE w == runs[r]
<1>4. w \in Run
    BY <1>2
<1>5. \A q \in DOMAIN runs : Gone(runs[q]).build = runs[q].build
    BY <1>2 DEF Gone, Run
<1>6. CASE launch(r) \/ launch_dies(r)
  <2>1. ASSUME NEW killed, NEW v, v.build = w.build, Cleans(r, killed, v)
        PROVE  SameBuild
    <3>1. \A q \in DOMAIN runs : runs'[q].build = runs[q].build
        BY <1>5, <2>1 DEF Cleans
    <3>2. QED BY <1>1, <3>1 DEF SameBuild
  <2>2. CASE launch(r)
    <3> DEFINE v == [w EXCEPT !.thread = "watch", !.tool = "launched"]
    <3>1. v.build = w.build
        BY <1>4 DEF Run
    <3>2. PICK killed \in BOOLEAN : Cleans(r, killed, v)
        BY <2>2 DEF launch
    <3> HIDE DEF v
    <3>3. QED BY <2>1, <3>1, <3>2
  <2>3. CASE launch_dies(r)
    <3> DEFINE v == [w EXCEPT !.thread = "done"]
    <3>1. v.build = w.build
        BY <1>4 DEF Run
    <3>2. PICK killed \in BOOLEAN : Cleans(r, killed, v)
        BY <2>3 DEF launch_dies
    <3> HIDE DEF v
    <3>3. QED BY <2>1, <3>1, <3>2
  <2>4. QED BY <1>6, <2>2, <2>3
<1>7. ASSUME sees_start(r) \/ sees_prompt(r) \/ next_text_case(r) \/ initialize(r)
             \/ pauses(r) \/ leaves_loop(r) \/ read_udp_cmd(r)
      PROVE  SameBuild
  <2>1. CASE sees_start(r)
    <3> DEFINE v == [w EXCEPT !.ongoing = TRUE, !.started = TRUE]
    <3>1. runs' = [runs EXCEPT ![r] = v] /\ v.build = w.build
        BY <1>4, <2>1 DEF sees_start, Run
    <3> HIDE DEF v
    <3>2. QED BY <1>3, <3>1
  <2>2. CASE sees_prompt(r)
    <3> DEFINE v == [w EXCEPT !.ongoing = FALSE, !.thread = "done", !.started = TRUE,
                              !.error = @ \/ ~w.started]
    <3>1. runs' = [runs EXCEPT ![r] = v] /\ v.build = w.build
        BY <1>4, <2>2 DEF sees_prompt, Run
    <3> HIDE DEF v
    <3>2. QED BY <1>3, <3>1
  <2>3. CASE next_text_case(r)
    <3> DEFINE v == [w EXCEPT !.tool = "picked", !.tests = @ + 1]
    <3>1. runs' = [runs EXCEPT ![r] = v] /\ v.build = w.build
        BY <1>4, <2>3 DEF next_text_case, Run
    <3> HIDE DEF v
    <3>2. QED BY <1>3, <3>1
  <2>4. CASE initialize(r)
    <3> DEFINE v == [w EXCEPT !.tool = "testing", !.exit = FALSE]
    <3>1. runs' = [runs EXCEPT ![r] = v] /\ v.build = w.build
        BY <1>4, <2>4 DEF initialize, Run
    <3> HIDE DEF v
    <3>2. QED BY <1>3, <3>1
  <2>5. CASE pauses(r)
    <3> DEFINE v == [w EXCEPT !.tool = "top", !.paused = TRUE]
    <3>1. runs' = [runs EXCEPT ![r] = v] /\ v.build = w.build
        BY <1>4, <2>5 DEF pauses, Run
    <3> HIDE DEF v
    <3>2. QED BY <1>3, <3>1
  <2>6. CASE leaves_loop(r)
    <3> DEFINE v == [w EXCEPT !.tool = "closing", !.inbox = <<>>]
    <3>1. runs' = [runs EXCEPT ![r] = v] /\ v.build = w.build
        BY <1>4, <2>6 DEF leaves_loop, Run
    <3> HIDE DEF v
    <3>2. QED BY <1>3, <3>1
  <2>7. CASE read_udp_cmd(r)
    <3> DEFINE v == [w EXCEPT !.inbox = Tail(@),
                       !.paused = @ /\ Head(runs[r].inbox) \notin {"quit", "resume"},
                       !.exit = @ \/ Head(runs[r].inbox) = "quit"]
    <3>1. runs' = [runs EXCEPT ![r] = v] /\ v.build = w.build
        BY <1>4, <2>7 DEF read_udp_cmd, Run
    <3> HIDE DEF v
    <3>2. QED BY <1>3, <3>1
  <2>8. QED BY <1>7, <2>1, <2>2, <2>3, <2>4, <2>5, <2>6, <2>7
<1>8. CASE sees_eof(r)
  <2> DEFINE v == [w EXCEPT !.thread = "done", !.started = TRUE, !.error = TRUE]
  <2>1. runs' = [runs EXCEPT ![r] = v]
      BY <1>8 DEF sees_eof
  <2>2. v.build = w.build
      BY <1>4 DEF Run
  <2> HIDE DEF v
  <2>3. QED BY <1>3, <2>1, <2>2
<1>9. ASSUME runs' = [runs EXCEPT ![r] = Gone(@)] PROVE SameBuild
    BY <1>3, <1>5, <1>9
<1>10. CASE tool_opens(r)
  <2> DEFINE v == [w EXCEPT !.tool = "top", !.printed = TRUE]
  <2>1. v.build = w.build
      BY <1>4 DEF Run
  <2>2. runs' = [runs EXCEPT ![r] = Gone(@)] \/ runs' = [runs EXCEPT ![r] = v]
      BY <1>10 DEF tool_opens
  <2> HIDE DEF v
  <2>3. QED BY <1>3, <1>9, <2>1, <2>2
<1>11. CASE quit_program(r) \/ tool_dies(r)
    BY <1>9, <1>11 DEF quit_program, tool_dies
<1>12. ASSUME NEW o, test_case_ends(r, o) PROVE SameBuild
  <2> DEFINE ok == runs[r].ok /\ o \in {"ok", "skip"}
             ready == /\ o # "skip"
                      /\ \/ runs[r].tests \in Mandatory .. LastTest - 1
                         \/ ~ok
             tool == IF ready /\ ~OfferIsAtomic THEN "ready" ELSE "top"
             paused == ready /\ OfferIsAtomic
             exit == w.exit \/ o = "exit"
             v == [w EXCEPT !.tool = tool, !.paused = paused, !.ok = ok, !.exit = exit]
  <2>1. runs' = [runs EXCEPT ![r] = v]
      BY <1>12 DEF test_case_ends
  <2> HIDE DEF ok, ready, tool, paused, exit
  <2>2. v.build = w.build
      BY <1>4 DEF Run
  <2> HIDE DEF v
  <2>3. QED BY <1>3, <2>1, <2>2
<1>13. QED BY <1>6, <1>7, <1>8, <1>10, <1>11, <1>12 DEF RunStep

LEMMA RunKeepsUntested ==
    ASSUME ServiceTypes, KeptInv, NEW r \in DOMAIN runs,
           RunStep(r) \/ read_udp_cmd(r) \/ launch_dies(r) \/ sees_eof(r) \/ tool_dies(r)
    PROVE  KeptInv'
<1>1. UNCHANGED <<db, gw, ctl, env>> /\ SameBuild
    BY RunFrame, RunsKeepBuild
<1>2. BusOK(bus) /\ runs[r].build \in Builds
  <2>1. runs[r] \in Run
      BY DEF ServiceTypes
  <2>2. QED BY <2>1 DEF ServiceTypes, Run
<1>3. ASSUME NEW n \in {"test_tool_shutdown", "test_tool_ready_for_new_build"},
             bus' = Append(bus, Sig(n, runs[r].build, FALSE))
      PROVE  StillAnnounced
  <2> DEFINE s == Sig(n, runs[r].build, FALSE)
  <2>1. s \in Signals /\ s.name = n /\ s.flag = FALSE
      BY <1>2 DEF Sig, Signals
  <2>2. bus' = Append(bus, s)
      BY <1>3
  <2> HIDE DEF s
  <2>3. QED BY <1>2, <2>1, <2>2, SignalSent DEF StillAnnounced
<1>4. StillAnnounced
    BY <1>3, RunFrame DEF StillAnnounced
<1>5. QED BY <1>1, <1>4, OthersKeep

(* a test of the build in hand that has ended without failure *)
LEMMA EndOnTheWay ==
    ASSUME ServiceInv, KeptInv, ~NoForce, ctl.build # None,
           ctl.pc = "get_build" \/ (ctl.pc = "idle" /\ ~ongoing_test)
    PROVE  Announces(bus, ctl.build)
<1>1. env.failures = {}
    BY DEF KeptInv, UntestedInv
<1>2. ctl.handler # 0 /\ ctl.build = runs[ctl.handler].build
    BY DEF KeptInv, HandsInv
<1>3. ctl.handler \in DOMAIN runs
    BY <1>2 DEF ServiceInv, ServiceTypes
<1>4. ctl.pc = "idle" => runs[ctl.handler].tool = "gone"
    BY <1>1, <1>2, <1>3
       DEF ServiceInv, ServiceTypes, OneLaunch, RunOK, EndAnnounced, ongoing_test
<1>5. QED BY <1>1, <1>2, <1>4 DEF ServiceInv, EndAnnounced

LEMMA IdleControllerKeeps ==
    ASSUME ServiceInv, KeptInv,
           \/ check_priority_list \/ set_test_to_faulty \/ priority_increased
           \/ test_tool_ready_for_new_build \/ pause \/ resume
    PROVE  KeptInv'
<1>1. ServiceTypes /\ ctl \in Controller /\ RecordsThere(db) /\ BusOK(bus)
    BY DEF ServiceInv, ServiceTypes
<1>2. ctl.pc = "idle" /\ bus # <<>> /\ Head(bus).name # "test_tool_shutdown"
    BY DEF check_priority_list, set_test_to_faulty, priority_increased,
           test_tool_ready_for_new_build, pause, resume, Takes
<1>3. ASSUME bus' \in {Tail(bus), Append(Tail(bus), Check)} PROVE StillAnnounced
    BY <1>1, <1>2, <1>3, TakenSame DEF SameBus, StillAnnounced
<1>4. Recorded(db) /\ ResultLists(db)
    BY SameRecorded DEF SameInfo, KeptInv, UntestedInv
<1>5. /\ UNCHANGED runs => SameBuild
      /\ \A c \in {"quit", "resume"} : runs' = Sent(ctl.handler, c) => SameBuild
  <2>1. ASSUME SameRuns PROVE SameBuild
      BY <1>1, <2>1 DEF SameRuns, SameBuild, Like, ServiceTypes
  <2>2. QED BY <1>1, <2>1, RunsLike, SentRuns
<1>6. CASE Ignore
    BY <1>1, <1>2, <1>3, <1>4, <1>5, <1>6, IdleKept DEF Ignore
<1>7. CASE check_priority_list /\ ~Ignore
  <2>1. /\ UNCHANGED <<db, gw, env>> /\ bus' = Tail(bus) /\ ~ctl.paused
        /\ \/ ctl' = ctl /\ runs' = Sent(ctl.handler, "quit")
           \/ ctl' = [ctl EXCEPT !.pc = "get_build"] /\ UNCHANGED runs
      BY <1>7 DEF check_priority_list
  <2>2. /\ ctl'.pc \in {"idle", "get_build"} /\ ctl'.build = ctl.build
        /\ ctl'.handler = ctl.handler /\ ctl'.paused = ctl.paused
      BY <1>1, <1>2, <2>1 DEF Controller
  <2>3. StillAnnounced /\ SameBuild
      BY <1>3, <1>5, <2>1
  <2>4. QED BY <1>1, <1>2, <1>4, <2>1, <2>2, <2>3, IdleKept
<1>8. CASE set_test_to_faulty /\ ~Ignore
  <2>1. /\ UNCHANGED <<gw, env, runs>> /\ bus' = Append(Tail(bus), Check)
        /\ db' = StatusAfter("CANCELLED")
        /\ ctl'.build = ctl.build /\ ctl'.pc = ctl.pc /\ ctl'.handler = ctl.handler
      BY <1>1, <1>8 DEF set_test_to_faulty, Controller
  <2>2. Recorded(db') /\ db'.priority = db.priority
      BY <1>1, <1>4, <2>1, StatusEffect DEF Recorded
  <2>3. StillAnnounced /\ SameBuild
      BY <1>3, <1>5, <2>1
  <2>4. QED BY <1>1, <1>2, <2>1, <2>2, <2>3, IdleKept
<1>9. CASE priority_increased /\ ~Ignore
  <2>1. /\ UNCHANGED <<db, gw, env, runs>> /\ bus' \in {Tail(bus), Append(Tail(bus), Check)}
        /\ ctl'.build = ctl.build /\ ctl'.pc = ctl.pc /\ ctl'.handler = ctl.handler
      BY <1>1, <1>9 DEF priority_increased, Controller
  <2>2. StillAnnounced /\ SameBuild
      BY <1>3, <1>5, <2>1
  <2>3. QED BY <1>1, <1>2, <1>4, <2>1, <2>2, IdleKept
<1>10. CASE test_tool_ready_for_new_build
  <2>1. /\ UNCHANGED <<db, gw, env>> /\ bus' \in {Tail(bus), Append(Tail(bus), Check)}
        /\ ctl'.build = ctl.build /\ ctl'.pc = ctl.pc /\ ctl'.handler = ctl.handler
        /\ runs' = runs \/ runs' = Sent(ctl.handler, "resume")
      BY <1>1, <1>10 DEF test_tool_ready_for_new_build, Controller
  <2>2. StillAnnounced /\ SameBuild
      BY <1>3, <1>5, <2>1
  <2>3. QED BY <1>1, <1>2, <1>4, <2>1, <2>2, IdleKept
<1>11. CASE (pause \/ resume) /\ ~Ignore
  <2>1. /\ UNCHANGED <<db, gw, env, runs>> /\ bus' \in {Tail(bus), Append(Tail(bus), Check)}
        /\ ctl'.build = ctl.build /\ ctl'.pc = ctl.pc /\ ctl'.handler = ctl.handler
      BY <1>1, <1>11 DEF pause, resume, Controller
  <2>2. StillAnnounced /\ SameBuild
      BY <1>3, <1>5, <2>1
  <2>3. QED BY <1>1, <1>2, <1>4, <2>1, <2>2, IdleKept
<1>12. QED BY <1>6, <1>7, <1>8, <1>9, <1>10, <1>11

LEMMA GetBuildKeepsUntested ==
    ASSUME ServiceInv, QueueInv, KeptInv, get_build
    PROVE  KeptInv'
<1>0. PICK b : b = find_next_build(db)[1]
    OBVIOUS
<1>1. /\ ServiceTypes /\ ctl \in Controller /\ RecordsThere(db) /\ OneQueue(db.priority)
      /\ ResultLists(db)
    BY DEF ServiceInv, ServiceTypes, QueueInv, KeptInv, UntestedInv
<1>2. UNCHANGED <<gw, bus, env, runs>> /\ ctl.pc = "get_build"
    BY DEF get_build
<1>3. \A c : Announces(bus, c) => Announces(bus', c)
    BY <1>2
<1>4. ASSUME NEW c \in Builds, c = ctl.build, Announced(c), NotTested(db, c)
      PROVE  Announces(bus', c)
  <2>1. c # None
      BY BuildsAssumption
  <2>2. ~NoForce
      BY <1>2, <1>4, <2>1 DEF KeptInv, HandsInv
  <2>3. QED BY <1>2, <1>3, <1>4, <2>1, <2>2, EndOnTheWay
<1>5. CASE b = None
  <2>1. db' = db /\ ctl'.build = None /\ ctl'.pc = "idle" /\ ctl'.handler = ctl.handler
      BY <1>0, <1>1, <1>5 DEF get_build, Controller
  <2>2. Recorded(db')
      BY <1>1, <2>1, SameRecorded DEF SameInfo
  <2>3. UntestedInv' /\ (NoForce' <=> NoForce)
      BY <1>1, <1>2, <1>3, <1>4, <2>1, <2>2, HandedOver DEF Untested
  <2>4. HandsInv'
      BY <2>1, <2>3 DEF HandsInv
  <2>5. QED BY <2>3, <2>4 DEF KeptInv
<1>6. CASE b # None
  <2>1. db' = extract(db)
      BY <1>0, <1>6 DEF get_build
  <2>2. b \in Queue(db.priority) /\ Queue(db'.priority) = Queue(db.priority) \ {b}
      BY <1>0, <1>1, <1>6, <2>1, ExtractQueue
  <2>3. b \in Builds
      BY <2>2 DEF Queue
  <2>4. Recorded(db')
      BY <1>1, <2>1, <2>3, ExtractRequest, SameRecorded
  <2>5. CASE b \notin Known(db)
    <3>1. ctl'.build = ctl.build /\ ctl'.pc = "idle" /\ ctl'.handler = ctl.handler
        BY <1>0, <1>1, <1>6, <2>5 DEF get_build, Controller
    <3>2. /\ UntestedInv' /\ (NoForce' <=> NoForce)
          /\ \A c : Announced(c)' <=> Announced(c)
        BY <1>1, <1>2, <1>3, <2>2, <2>4, <2>5, <3>1, HandedOver DEF Announced
    <3>3. ASSUME NoForce, ctl'.build # None, Announced(ctl.build)
          PROVE  ~NotTested(db', ctl.build)
        BY <1>2, <2>4, <3>1, <3>3 DEF KeptInv, HandsInv, Recorded, Announced
    <3>4. ctl'.build # None => ctl'.handler # 0 /\ ctl'.build = runs'[ctl'.handler].build
        BY <1>2, <3>1 DEF KeptInv, HandsInv
    <3>5. HandsInv'
        BY <3>1, <3>2, <3>3, <3>4 DEF HandsInv, NotTested
    <3>6. QED BY <3>2, <3>5 DEF KeptInv
  <2>6. CASE b \in Known(db)
    <3>1. ctl'.build = b /\ ctl'.pc = "prepare" /\ ctl'.paused = ctl.paused
        BY <1>0, <1>1, <1>6, <2>6 DEF get_build, Controller
    <3>2. UntestedInv' /\ (NoForce' <=> NoForce)
        BY <1>1, <1>2, <1>3, <1>4, <2>2, <2>4, <3>1, HandedOver DEF Untested, Recorded
    <3>3. HandsInv'
        BY <1>2, <3>1, <3>2 DEF KeptInv, HandsInv
    <3>4. QED BY <3>2, <3>3 DEF KeptInv
  <2>7. QED BY <2>5, <2>6
<1>7. QED BY <1>5, <1>6

LEMMA ForceBuildKeepsUntested ==
    ASSUME ServiceInv, QueueInv, KeptInv, force_build
    PROVE  KeptInv'
<1>0. PICK b : b = Head(bus).build
    OBVIOUS
<1>1. /\ ServiceTypes /\ ctl \in Controller /\ RecordsThere(db) /\ OneQueue(db.priority)
      /\ ResultLists(db) /\ BusOK(bus)
    BY DEF ServiceInv, ServiceTypes, QueueInv, KeptInv, UntestedInv
<1>2. /\ bus # <<>> /\ Head(bus).name = "force_build" /\ UNCHANGED <<gw, env, runs>>
      /\ ctl.pc = "idle" /\ bus' = Tail(bus)
    BY DEF force_build, Takes, Ignore
<1>3. ~NoForce /\ b \in Builds
    BY <1>0, <1>1, <1>2, NoForceAnswers, SignalTaken
<1>4. \A c \in Builds \cup {None} : Announces(bus, c) => Announces(bus', c)
    BY <1>1, <1>2, TakenSame DEF SameBus
<1>5. CASE Ignore
  <2>1. Recorded(db')
      BY <1>1, <1>5, SameRecorded DEF Ignore, SameInfo
  <2>2. SameBuild /\ StillAnnounced
      BY <1>2, <1>4 DEF SameBuild, StillAnnounced
  <2>3. QED BY <1>1, <1>2, <1>5, <2>1, <2>2, IdleKept DEF Ignore
<1>6. CASE ~Ignore
  <2>1. /\ db' = priority_del(db, b, FALSE) /\ ~ongoing_test
        /\ ctl'.pc = "prepare" /\ ctl'.build = b
      BY <1>0, <1>1, <1>6 DEF force_build, Controller
  <2>2. Queue(db'.priority) = Queue(db.priority) \ {b}
      BY <1>1, <1>3, <2>1, PriorityDelQueue
  <2>3. Recorded(db')
    <3>1. SameInfo(db, db')
      <4>1. db' = db \/ db' = clean_priority(dequeue(db, b))
          BY <2>1 DEF priority_del
      <4>2. SameInfo(db, dequeue(db, b)) /\ RecordsThere(dequeue(db, b))
          BY <1>1, <1>3, QueueRequests, SameRecords DEF NoNewTest
      <4>3. SameInfo(dequeue(db, b), clean_priority(dequeue(db, b)))
          BY <4>2, CleanPriorityRecords
      <4>4. QED BY <4>1, <4>2, <4>3 DEF SameInfo
    <3>2. QED BY <1>1, <3>1, SameRecorded
  <2>4. ASSUME NEW c \in Builds, c = ctl.build PROVE Announces(bus', c)
    <3>1. c # None
        BY BuildsAssumption
    <3>2. QED BY <1>2, <1>3, <1>4, <2>1, <2>4, <3>1, EndOnTheWay
  <2>5. UntestedInv' /\ (NoForce' <=> NoForce)
      BY <1>1, <1>2, <1>4, <2>1, <2>2, <2>3, <2>4, HandedOver
  <2>6. HandsInv'
      BY <1>3, <2>1, <2>5 DEF HandsInv
  <2>7. QED BY <2>5, <2>6 DEF KeptInv
<1>7. QED BY <1>5, <1>6

LEMMA ShutdownKeepsUntested ==
    ASSUME ServiceInv, KeptInv, test_tool_shutdown
    PROVE  KeptInv'
<1>0. PICK b : b = Head(bus).build
    OBVIOUS
<1>1. /\ ServiceTypes /\ ctl \in Controller /\ RecordsThere(db)
      /\ ResultLists(db) /\ BusOK(bus)
    BY DEF ServiceInv, ServiceTypes, KeptInv, UntestedInv
<1>2. /\ bus # <<>> /\ Head(bus).name = "test_tool_shutdown" /\ UNCHANGED <<gw, env, runs>>
      /\ ctl.pc = "idle" /\ ctl'.pc = "idle"
      /\ ctl' = ctl \/ (b = ctl.build /\ ctl'.build = None)
      /\ bus' \in {Tail(bus), Append(Tail(bus), Check)}
      /\ db' = IF b \in Known(db) THEN add_build_test_result(db, b, TheResult) ELSE db
  <2>1. /\ bus # <<>> /\ Head(bus).name = "test_tool_shutdown" /\ UNCHANGED <<gw, env, runs>>
        /\ ctl.pc = "idle"
      BY DEF test_tool_shutdown, Takes
  <2>2. db' = IF b \in Known(db) THEN add_build_test_result(db, b, TheResult) ELSE db
      BY <1>0 DEF test_tool_shutdown, TheResult
  <2>3. \/ bus' = Tail(bus) /\ ctl' = ctl
        \/ /\ b = ctl.build /\ bus' = Append(Tail(bus), Check)
           /\ ctl' = [ctl EXCEPT !.stoppable = FALSE, !.handler = 0,
                                 !.build = None, !.high = FALSE]
      BY <1>0 DEF test_tool_shutdown
  <2>4. ctl'.pc = "idle" /\ (ctl' = ctl \/ (b = ctl.build /\ ctl'.build = None))
      BY <1>1, <2>1, <2>3 DEF Controller
  <2>5. QED BY <2>1, <2>2, <2>3, <2>4
<1>3. /\ db'.priority = db.priority /\ Recorded(db')
      /\ \A c \in Builds : Untested(db', c) => c # b
    BY <1>1, <1>2, ResultEffect DEF Recorded
<1>4. \A c : c # b /\ Announces(bus, c) => Announces(bus', c)
  <2>1. BusOK(Tail(bus))
      BY <1>1, <1>2, SignalTaken
  <2>2. \A c : c # b /\ Announces(bus, c) => Announces(Tail(bus), c)
    <3>1. \A c : Sig("test_tool_shutdown", c, FALSE).build = c
        BY DEF Sig
    <3>2. \A c : Announces(bus, c) <=>
              Announces(Tail(bus), c) \/ Head(bus) = Sig("test_tool_shutdown", c, FALSE)
        BY <1>1, <1>2, SignalTaken
    <3>3. \A c : Head(bus) = Sig("test_tool_shutdown", c, FALSE) => c = b
        BY <1>0, <3>1
    <3>4. QED BY <3>2, <3>3
  <2>3. Check \in Signals /\ Check.name = "check_priority_list"
      BY DEF Check, Sig, Signals
  <2>4. \A c : Announces(Tail(bus), c) => Announces(Append(Tail(bus), Check), c)
      BY <2>1, <2>3, SignalSent
  <2>5. QED BY <1>2, <2>2, <2>4
<1>5. /\ UntestedInv' /\ (NoForce' <=> NoForce)
      /\ \A c : Announced(c)' <=> Announced(c)
    BY <1>1, <1>2, <1>3, <1>4, HandedOver
<1>6. ASSUME NoForce, ctl' = ctl, ctl.build # None, Announced(ctl.build)
      PROVE  ~NotTested(db', ctl.build)
    BY <1>2, <1>3, <1>6 DEF KeptInv, HandsInv, Recorded, Announced
<1>7. ctl'.build # None =>
          /\ ctl' = ctl
          /\ ctl'.handler # 0 /\ ctl'.build = runs'[ctl'.handler].build
    BY <1>2 DEF KeptInv, HandsInv
<1>8. HandsInv'
    BY <1>2, <1>5, <1>6, <1>7 DEF HandsInv, NotTested
<1>9. QED BY <1>5, <1>8 DEF KeptInv

LEMMA StartKeepsUntested ==
    ASSUME ServiceInv, KeptInv, prepare \/ prepare_fails \/ wait_start \/ start_failed
    PROVE  KeptInv'
<1>1. /\ ServiceTypes /\ ctl \in Controller /\ RecordsThere(db)
      /\ ResultLists(db) /\ Recorded(db)
    BY SameRecorded DEF ServiceInv, ServiceTypes, KeptInv, UntestedInv, SameInfo
<1>2. UNCHANGED <<gw, bus, env>> /\ ctl.pc # "idle"
    BY DEF prepare, prepare_fails, wait_start, start_failed
<1>3. (\A c : Announces(bus, c) => Announces(bus', c)) /\ (NoForce => ~ctl.paused)
    BY <1>2 DEF KeptInv, HandsInv
<1>4. CASE prepare
  <2>1. db' = db /\ ctl'.pc = "wait" /\ ctl'.build = ctl.build /\ ctl'.paused = ctl.paused
      BY <1>1, <1>4 DEF prepare, Controller
  <2>2. UntestedInv' /\ (NoForce' <=> NoForce)
      BY <1>1, <1>2, <1>3, <2>1, HandedOver
  <2>3. HandsInv'
      BY <1>3, <2>1, <2>2 DEF HandsInv
  <2>4. QED BY <2>2, <2>3 DEF KeptInv
<1>5. CASE prepare_fails
  <2>1. /\ db' = db /\ ctl'.pc = "faulty" /\ ctl'.build = ctl.build
        /\ ctl'.paused = ctl.paused /\ env.failures # {}
      BY <1>1, <1>5 DEF prepare_fails, Controller
  <2>2. UntestedInv' /\ (NoForce' <=> NoForce)
      BY <1>1, <1>2, <1>3, <2>1, HandedOver
  <2>3. NoForce
      BY <2>1 DEF KeptInv, UntestedInv
  <2>4. HandsInv'
      BY <1>3, <2>1, <2>2, <2>3 DEF HandsInv
  <2>5. QED BY <2>2, <2>4 DEF KeptInv
<1>6. CASE wait_start /\ runs[ctl.handler].error
  <2>1. /\ db' = db /\ ctl'.pc = "faulty" /\ ctl'.build = ctl.build
        /\ ctl'.paused = ctl.paused /\ ctl.pc = "wait"
      BY <1>1, <1>6 DEF wait_start, Controller
  <2>2. UntestedInv' /\ (NoForce' <=> NoForce)
      BY <1>1, <1>2, <1>3, <2>1, HandedOver
  <2>3. ASSUME ~NoForce PROVE Announces(bus, ctl.build)
    <3>1. env.failures = {}
        BY <2>3 DEF KeptInv, UntestedInv
    <3>2. ctl.handler # 0 /\ ctl.build = runs[ctl.handler].build
        BY <2>1 DEF ServiceInv, OneLaunch
    <3>3. runs[ctl.handler].tool = "gone"
      <4>1. ctl.handler \in DOMAIN runs
          BY <3>2 DEF ServiceInv, ServiceTypes
      <4>2. QED BY <1>6, <3>1, <4>1 DEF ServiceInv, EndAnnounced
    <3>4. QED BY <2>1, <3>1, <3>2, <3>3 DEF ServiceInv, EndAnnounced
  <2>4. ~NoForce => Announces(bus', ctl'.build)
      BY <1>3, <2>1, <2>3
  <2>5. HandsInv'
      BY <1>3, <2>1, <2>2, <2>4 DEF HandsInv, Announces
  <2>6. QED BY <2>2, <2>5 DEF KeptInv
<1>7. CASE wait_start /\ ~runs[ctl.handler].error
  <2>1. /\ db' = StatusAfter("TEST_ONGOING") /\ ctl'.pc = "idle" /\ ctl'.build = ctl.build
        /\ ctl'.handler = ctl.handler /\ runs' = runs /\ ctl.pc = "wait"
      BY <1>1, <1>7 DEF wait_start, Controller
  <2>2. /\ Recorded(db') /\ db'.priority = db.priority
        /\ ~ctl.paused /\ ctl.build \in Known(db) => ~NotTested(db', ctl.build)
      BY <1>1, <2>1, StatusEffect DEF Recorded, NotTested
  <2>3. /\ UntestedInv' /\ (NoForce' <=> NoForce)
        /\ \A c : Announced(c)' <=> Announced(c)
      BY <1>1, <1>2, <1>3, <2>1, <2>2, HandedOver
  <2>4. NoForce /\ Announced(ctl.build) => ~NotTested(db', ctl.build)
      BY <1>3, <2>2 DEF Announced
  <2>5. ctl'.handler # 0 /\ ctl'.build = runs'[ctl'.handler].build
      BY <2>1 DEF ServiceInv, OneLaunch
  <2>6. HandsInv'
      BY <2>1, <2>3, <2>4, <2>5 DEF HandsInv, NotTested
  <2>7. QED BY <2>3, <2>6 DEF KeptInv
<1>8. CASE start_failed
  <2>1. /\ db' = StatusAfter("TEST_FAULTY") /\ ctl'.pc = "idle" /\ ctl'.build = None
        /\ ctl.pc = "faulty"
      BY <1>1, <1>8 DEF start_failed, Controller
  <2>2. /\ Recorded(db') /\ db'.priority = db.priority
        /\ ~ctl.paused /\ ctl.build \in Known(db) => ~NotTested(db', ctl.build)
      BY <1>1, <2>1, StatusEffect DEF Recorded, NotTested
  <2>3. ASSUME NEW c \in Builds, Announced(c), Untested(db', c), ctl.build = c
        PROVE  Announces(bus', c)
    <3>1. ~NoForce
        BY <1>3, <2>2, <2>3 DEF Announced, Untested
    <3>2. QED BY <1>3, <2>1, <2>3, <3>1 DEF KeptInv, HandsInv
  <2>4. UntestedInv' /\ (NoForce' <=> NoForce)
      BY <1>1, <1>2, <1>3, <2>1, <2>2, <2>3, HandedOver
  <2>5. HandsInv'
      BY <2>1, <2>4 DEF HandsInv
  <2>6. QED BY <2>4, <2>5 DEF KeptInv
<1>9. QED BY <1>4, <1>5, <1>6, <1>7, <1>8

LEMMA StepKeepsUntested ==
    ASSUME ListsInOrder, ServiceInv, QueueInv, KeptInv, [ServiceNext]_serviceVars
    PROVE  KeptInv'
<1>1. ServiceTypes
    BY DEF ServiceInv
<1>2. CASE UNCHANGED serviceVars
    BY <1>1, <1>2, OthersKeep DEF serviceVars, StillAnnounced, SameBuild
<1>3. ASSUME NEW b \in Builds, NEW t \in env.triggers, Handle(b, t) PROVE KeptInv'
  <2>1. t \in Triggers
      BY <1>1, <1>3 DEF ServiceTypes, Scenario
  <2>2. QED BY <1>3, <2>1, HandleKeepsUntested
<1>4. ASSUME NEW c \in env.commands, NEW b \in Builds \cup {None}, Command(c, b)
      PROVE  KeptInv'
    BY <1>1, <1>4, CommandKeepsUntested
<1>5. CASE ControllerStep \/ prepare_fails
    BY <1>5, IdleControllerKeeps, GetBuildKeepsUntested, ForceBuildKeepsUntested,
       ShutdownKeepsUntested, StartKeepsUntested DEF ControllerStep
<1>6. ASSUME NEW r \in DOMAIN runs, RunStep(r) \/ read_udp_cmd(r) \/ launch_dies(r)
                                    \/ sees_eof(r) \/ tool_dies(r)
      PROVE  KeptInv'
    BY <1>1, <1>6, RunKeepsUntested
<1>7. QED BY <1>2, <1>3, <1>4, <1>5, <1>6 DEF ServiceNext

(* For any builds and any lists in which new_build, and nothing else,       *)
(* records and queues a build, as in the gateway's, in scenarios that do    *)
(* not both force builds and break down: a build that was queued stays in   *)
(* the queue, in the hands of the controller or on its way to a result      *)
(* until it has a status, the promotion of a newer build of its project     *)
(* took it out of the queue or a purge cleaned it as a baseline.            *)
THEOREM BuildsNotForgotten ==
    ASSUME ListsInOrder, ForcedUnbroken
    PROVE  ServiceSpec => []NotForgotten
<1>1. ServiceInit => KeptInv
  <2> SUFFICES ASSUME ServiceInit PROVE KeptInv
      OBVIOUS
  <2>1. /\ db = EmptyDB /\ env \in Scenarios
        /\ ctl.build = None /\ ctl.pc = "idle"
      BY DEF ServiceInit
  <2>2. Known(db) = {}
      BY <2>1 DEF EmptyDB, NoEntries, Known
  <2>3. env.failures = {} \/ NoForce
      BY <2>1 DEF ForcedUnbroken, NoForce
  <2>4. UntestedInv
      BY <2>2, <2>3 DEF UntestedInv, ResultLists, Announced
  <2>5. HandsInv
      BY <2>1 DEF HandsInv
  <2>6. QED BY <2>4, <2>5 DEF KeptInv
<1>2. KeptInv /\ ServiceInv /\ QueueInv /\ [ServiceNext]_serviceVars => KeptInv'
    BY StepKeepsUntested
<1>3. KeptInv => NotForgotten
  <2> SUFFICES ASSUME KeptInv, NEW b \in Builds, Announced(b), Untested(db, b)
               PROVE  Queued(b) \/ ctl.build = b \/ Dropped(b) \/ ShutdownOnTheWay(b)
      BY DEF NotForgotten, Announced, Untested, NotTested
  <2>1. ctl.build = b \/ Left(b)
      BY DEF KeptInv, UntestedInv
  <2>2. b \in Queue(db.priority) => Queued(b)
      BY DEF Queue, Items, Queued
  <2>3. QED BY <2>1, <2>2 DEF Left, Announces, ShutdownOnTheWay
<1>4. QueuesOnce
    BY OrderedListsQueueOnce
<1>5. QED BY <1>1, <1>2, <1>3, <1>4, ServiceInvHolds, QueueInvHolds, PTL DEF ServiceSpec

----------------------------------------------------------------------------
(* For every list of lists: the concatenation of its first i members.      *)
Joins(c, h) ==
    /\ c[1] = h[1]
    /\ \A i \in 2 .. Len(h) : c[i] = c[i - 1] \o h[i]

(* FlattenSeq is defined by recursion on the length; its equations hold.   *)
LEMMA FlattenJoins ==
    ASSUME NEW h, Len(h) \in Nat, Len(h) # 0
    PROVE  \E c : Joins(c, h) /\ FlattenSeq(h) = c[Len(h)]
<1> DEFINE n == Len(h)
           next(f, i) == IF i = 1 THEN h[i] ELSE f[i - 1] \o h[i]
           flatten[i \in 1 .. Len(h)] ==
               IF i = 1 THEN h[i] ELSE flatten[i - 1] \o h[i]
<1>1. FlattenSeq(h) = flatten[n]
    BY DEF FlattenSeq
<1>2. flatten = CHOOSE f : f = [i \in 1 .. n |-> next(f, i)]
    BY DEF flatten
<1> HIDE DEF flatten
<1>3. n \in Nat /\ n # 0 /\ n = Len(h)
    OBVIOUS
<1> HIDE DEF n
<1> DEFINE Upto(k) == \E f : f = [i \in 1 .. k |-> next(f, i)]
           Short == {k \in 1 .. n : ~Upto(k)}
<1> HIDE DEF Upto
<1>4. Short \subseteq Nat
    OBVIOUS
<1>0. ASSUME NEW k \in 1 .. n, ~Upto(k) PROVE k \in Short
    BY <1>0
<1>5. ASSUME Short # {} PROVE FALSE
  <2>1. PICK k \in Short : \A j \in Short : k <= j
      BY <1>4, <1>5, Smallest
  <2>2. k \in 1 .. n /\ ~Upto(k)
      BY <2>1
  <2> USE DEF Upto
  <2>3. k # 1
    <3> DEFINE f == [i \in 1 .. 1 |-> h[1]]
    <3>1. f = [i \in 1 .. 1 |-> next(f, i)]
        OBVIOUS
    <3> HIDE DEF f
    <3>2. Upto(1)
        BY <3>1
    <3>3. QED BY <2>2, <3>2
  <2>4. k - 1 \in 1 .. n /\ k \in Nat /\ k - 1 < k
      BY <1>3, <2>2, <2>3
  <2> HIDE DEF Short
  <2>5. k - 1 \notin Short
      BY <1>4, <2>1, <2>4
  <2>6. Upto(k - 1)
      BY <2>4, <2>5, <1>0
  <2>7. PICK f : f = [i \in 1 .. (k - 1) |-> next(f, i)]
      BY <2>6
  <2> DEFINE g == [i \in 1 .. k |-> IF i = k THEN next(f, k) ELSE f[i]]
  <2>8. \A i \in 1 .. k : i = k \/ i \in 1 .. (k - 1)
      BY <2>4
  <2> HIDE DEF next
  <2>9. \A i \in 1 .. (k - 1) : f[i] = next(f, i)
      BY <2>7
  <2>10. \A i \in 1 .. (k - 1) : i \in 1 .. k /\ i # k /\ (i # 1 => i - 1 \in 1 .. (k - 1))
      BY <2>4
  <2>11. \A i \in 1 .. (k - 1) : g[i] = f[i]
      BY <2>10
  <2>12. k \in 1 .. k /\ k - 1 \in 1 .. (k - 1) /\ g[k] = next(f, k)
      BY <2>3, <2>4
  <2>13. DOMAIN g = 1 .. k /\ g = [i \in 1 .. k |-> g[i]]
      OBVIOUS
  <2> HIDE DEF g
  <2>14. next(f, k) = next(g, k)
      BY <2>11, <2>12 DEF next
  <2>15. \A i \in 1 .. (k - 1) : next(f, i) = next(g, i)
      BY <2>10, <2>11 DEF next
  <2>16. \A i \in 1 .. k : g[i] = next(g, i)
      BY <2>8, <2>9, <2>11, <2>12, <2>14, <2>15
  <2>17. g = [i \in 1 .. k |-> next(g, i)]
      BY <2>13, <2>16
  <2>18. QED BY <2>2, <2>17
<1>6. Upto(n)
    BY <1>3, <1>5, <1>0
<1>7. flatten = [i \in 1 .. n |-> next(flatten, i)]
    BY <1>2, <1>6 DEF Upto
<1> HIDE DEF next
<1>8. \A i \in 1 .. n : flatten[i] = next(flatten, i)
    BY <1>7
<1>9. Joins(flatten, h)
  <2>1. 1 \in 1 .. n /\ \A i \in 2 .. n : i \in 1 .. n /\ i # 1
      BY <1>3
  <2>2. QED BY <1>3, <1>8, <2>1 DEF next, Joins
<1>10. QED BY <1>1, <1>3, <1>9

(* What holds of the first join and is kept by each next one holds of the  *)
(* concatenation: everything is a sequence over S.                         *)
LEMMA JoinsTyped ==
    ASSUME NEW S, NEW n \in Nat, NEW h \in [1 .. n -> Seq(S)], NEW c, Joins(c, h)
    PROVE  \A i \in 1 .. n : c[i] \in Seq(S)
<1> DEFINE Bad == {i \in 1 .. n : c[i] \notin Seq(S)}
<1>1. Len(h) = n /\ \A i \in 1 .. n : h[i] \in Seq(S)
    OBVIOUS
<1>2. ASSUME Bad # {} PROVE FALSE
  <2>1. Bad \subseteq Nat
      OBVIOUS
  <2>2. PICK k \in Bad : \A j \in Bad : k <= j
      BY <1>2, <2>1, Smallest
  <2>3. k \in 1 .. n /\ c[k] \notin Seq(S)
      BY <2>2
  <2>4. k # 1
      BY <1>1, <2>3 DEF Joins
  <2>5. k \in 2 .. n /\ k - 1 \in 1 .. n /\ k - 1 \notin Bad
      BY <2>2, <2>3, <2>4
  <2>6. c[k - 1] \in Seq(S)
      BY <2>5
  <2>7. c[k] = c[k - 1] \o h[k]
      BY <1>1, <2>5 DEF Joins
  <2>8. QED BY <1>1, <2>3, <2>6, <2>7
<1>3. QED BY <1>2

LEMMA FlattenTyped ==
    ASSUME NEW S, NEW n \in Nat, NEW h \in [1 .. n -> Seq(S)]
    PROVE  FlattenSeq(h) \in Seq(S)
<1>1. Len(h) = n
    OBVIOUS
<1>2. CASE n = 0
    BY <1>1, <1>2 DEF FlattenSeq
<1>3. CASE n # 0
    BY <1>1, <1>3, FlattenJoins, JoinsTyped
<1>4. QED BY <1>2, <1>3

(* Nothing joined with nothing. *)
Blank(h, k) == \A i \in 1 .. k : h[i] = <<>>

LEMMA JoinsEmpty ==
    ASSUME NEW h, Len(h) \in Nat, NEW c, Joins(c, h),
           NEW k \in 0 .. Len(h), Blank(h, k)
    PROVE  Blank(c, k)
<1> USE DEF Blank
<1> DEFINE n == Len(h)
<1>0. n \in Nat /\ n = Len(h) /\ k \in 0 .. n
    OBVIOUS
<1> HIDE DEF n
<1> DEFINE Bad == {i \in 1 .. k : c[i] # <<>>}
<1>1. ASSUME Bad # {} PROVE FALSE
  <2>1. Bad \subseteq Nat
      OBVIOUS
  <2>2. PICK m \in Bad : \A j \in Bad : m <= j
      BY <1>1, <2>1, Smallest
  <2>3. m \in 1 .. k /\ c[m] # <<>>
      BY <2>2
  <2>4. m # 1
      BY <2>3 DEF Joins
  <2>5. m \in 2 .. n /\ m - 1 \in 1 .. k /\ m - 1 \notin Bad
      BY <1>0, <2>2, <2>3, <2>4
  <2>6. c[m - 1] = <<>> /\ h[m] = <<>>
      BY <2>3, <2>5
  <2>7. c[m] = c[m - 1] \o h[m]
      BY <1>0, <2>5 DEF Joins
  <2>8. QED BY <2>3, <2>6, <2>7
<1>2. QED BY <1>1

LEMMA FlattenEmpty ==
    ASSUME NEW n \in Nat, NEW h, h = [i \in 1 .. n |-> <<>>]
    PROVE  FlattenSeq(h) = <<>>
<1>1. Len(h) = n /\ \A i \in 1 .. n : h[i] = <<>>
    OBVIOUS
<1>2. CASE n = 0
    BY <1>1, <1>2 DEF FlattenSeq
<1>3. CASE n # 0
  <2>1. PICK c : Joins(c, h) /\ FlattenSeq(h) = c[n]
      BY <1>1, <1>3, FlattenJoins
  <2>2. Blank(c, n)
    <3>1. n \in 0 .. n /\ Blank(h, n)
        BY <1>1 DEF Blank
    <3>2. QED BY <1>1, <2>1, <3>1, JoinsEmpty
  <2>3. QED BY <1>3, <2>1, <2>2 DEF Blank
<1>4. QED BY <1>2, <1>3

InTurn(s, t, u) == (s \o t) \o u = s \o (t \o u)

LEMMA ConcatInTurn ==
    ASSUME NEW S, NEW s \in Seq(S), NEW t \in Seq(S), NEW u \in Seq(S)
    PROVE  InTurn(s, t, u)
BY DEF InTurn

(* The head of the first part that is not empty is the head of the whole.  *)
HeadIn(h, g, n, k, x) ==
    /\ k \in 1 .. n
    /\ h[k] = <<x>> \o g[k]
    /\ \A i \in 1 .. n : i # k => h[i] = g[i]
    /\ \A i \in 1 .. n : i < k => h[i] = <<>>

HeadFirst(h, g, x) == FlattenSeq(h) = <<x>> \o FlattenSeq(g)

LEMMA FlattenHead ==
    ASSUME NEW S, NEW n \in Nat, NEW x \in S,
           NEW h \in [1 .. n -> Seq(S)], NEW g \in [1 .. n -> Seq(S)],
           NEW k, HeadIn(h, g, n, k, x)
    PROVE  HeadFirst(h, g, x)
<1> USE DEF HeadIn, HeadFirst
<1>1. Len(h) = n /\ Len(g) = n /\ n # 0
    OBVIOUS
<1>2. PICK c : Joins(c, h) /\ FlattenSeq(h) = c[n]
    BY <1>1, FlattenJoins
<1>3. PICK e : Joins(e, g) /\ FlattenSeq(g) = e[n]
    BY <1>1, FlattenJoins
<1>4. /\ \A i \in 1 .. n : e[i] \in Seq(S) /\ g[i] \in Seq(S)
      /\ h[k] \in Seq(S)
    BY <1>3, JoinsTyped
<1>5. /\ k - 1 \in 0 .. n
      /\ \A i \in 1 .. (k - 1) : h[i] = <<>>
      /\ \A i \in 1 .. (k - 1) : g[i] = <<>>
  <2>1. k - 1 \in 0 .. n /\ \A i \in 1 .. (k - 1) : i \in 1 .. n /\ i < k /\ i # k
      OBVIOUS
  <2>2. \A i \in 1 .. (k - 1) : h[i] = <<>> /\ h[i] = g[i]
      BY <2>1
  <2>3. QED BY <2>1, <2>2
<1>6. \A i \in 1 .. (k - 1) : c[i] = <<>> /\ e[i] = <<>>
  <2> DEFINE j == k - 1
  <2>1. j \in 0 .. n /\ Blank(h, j) /\ Blank(g, j)
      BY <1>5 DEF Blank
  <2> HIDE DEF j
  <2>2. Blank(c, j)
      BY <1>1, <1>2, <2>1, JoinsEmpty
  <2>3. Blank(e, j)
      BY <1>1, <1>3, <2>1, JoinsEmpty
  <2>4. QED BY <2>2, <2>3 DEF Blank, j
<1>7. c[k] = <<x>> \o e[k]
  <2>1. CASE k = 1
      BY <1>2, <1>3, <2>1 DEF Joins
  <2>2. CASE k # 1
    <3>1. k \in 2 .. n /\ k - 1 \in 1 .. (k - 1)
        BY <2>2
    <3>2. c[k] = <<>> \o h[k] /\ e[k] = <<>> \o g[k]
        BY <1>1, <1>2, <1>3, <1>6, <3>1 DEF Joins
    <3>3. QED BY <1>4, <3>2
  <2>3. QED BY <2>1, <2>2
<1> DEFINE Bad == {i \in k .. n : c[i] # <<x>> \o e[i]}
<1>8. ASSUME Bad # {} PROVE FALSE
  <2>1. Bad \subseteq Nat
      OBVIOUS
  <2>2. PICK m \in Bad : \A j \in Bad : m <= j
      BY <1>8, <2>1, Smallest
  <2>3. m \in k .. n /\ c[m] # <<x>> \o e[m]
      BY <2>2
  <2>4. m # k
      BY <1>7, <2>3
  <2> HIDE DEF Bad
  <2>5. /\ m \in 2 .. n /\ m - 1 \in k .. n /\ m - 1 \notin Bad
        /\ m \in 1 .. n /\ m - 1 \in 1 .. n
      BY <2>1, <2>2, <2>3, <2>4
  <2>6. c[m - 1] = <<x>> \o e[m - 1] /\ h[m] = g[m]
      BY <2>4, <2>5 DEF Bad
  <2>7. c[m] = c[m - 1] \o h[m] /\ e[m] = e[m - 1] \o g[m]
      BY <1>1, <1>2, <1>3, <2>5 DEF Joins
  <2>8. e[m - 1] \in Seq(S) /\ g[m] \in Seq(S) /\ <<x>> \in Seq(S)
      BY <1>4, <2>5
  <2>9. (<<x>> \o e[m - 1]) \o g[m] = <<x>> \o (e[m - 1] \o g[m])
    <3> DEFINE a == <<x>>
               b == e[m - 1]
               t == g[m]
    <3>1. a \in Seq(S) /\ b \in Seq(S) /\ t \in Seq(S)
        BY <2>8
    <3> HIDE DEF a, b, t
    <3>2. InTurn(a, b, t)
        BY <3>1, ConcatInTurn, Zenon
    <3>3. QED BY <3>2 DEF a, b, t, InTurn
  <2>10. c[m] = <<x>> \o e[m]
      BY <2>6, <2>7, <2>9, Zenon
  <2>11. QED BY <2>3, <2>10
<1>9. n \in k .. n
    OBVIOUS
<1>10. \A i \in k .. n : c[i] = <<x>> \o e[i]
    BY <1>8
<1> HIDE DEF Bad
<1>11. QED BY <1>2, <1>3, <1>9, <1>10, Zenon

(* sorted(..): every project of the set, in increasing order.              *)
InOrder(s, S) ==
    /\ s \in [1 .. Cardinality(S) -> S]
    /\ \A i, j \in 1 .. Cardinality(S) : i < j => s[i] < s[j]

Sortable(S) == \E s : InOrder(s, S)

LEMMA FiniteSetsSortable ==
    ASSUME NEW S, S \subseteq Nat, IsFiniteSet(S)
    PROVE  Sortable(S)
<1> DEFINE Failing(k) == \E T \in SUBSET Nat :
                             IsFiniteSet(T) /\ Cardinality(T) = k /\ ~Sortable(T)
           N == {k \in Nat : Failing(k)}
<1>1. ASSUME N # {} PROVE FALSE
  <2>1. PICK k \in N : \A j \in N : k <= j
      BY <1>1, Smallest
  <2>2. k \in Nat /\ Failing(k)
      BY <2>1
  <2>3. PICK T \in SUBSET Nat : IsFiniteSet(T) /\ Cardinality(T) = k /\ ~Sortable(T)
      BY <2>2
  <2>4. k # 0
    <3>1. CASE k = 0
      <4>1. T = {}
          BY <2>3, <3>1, FS_EmptySet
      <4> DEFINE s == [i \in 1 .. k |-> i]
      <4>2. InOrder(s, T)
          BY <2>3, <3>1, <4>1 DEF InOrder
      <4>3. QED BY <2>3, <4>2 DEF Sortable
    <3>2. QED BY <3>1
  <2>5. PICK m \in T : \A y \in T : y <= m
    <3>1. T # {}
        BY <2>3, <2>4, FS_EmptySet
    <3>2. QED BY <2>3, <3>1, Largest
  <2> DEFINE R == T \ {m}
  <2>6. IsFiniteSet(R) /\ Cardinality(R) = k - 1
      BY <2>3, <2>5, FS_RemoveElement
  <2>7. R \in SUBSET Nat /\ R \subseteq T /\ m \notin R /\ m \in Nat
      BY <2>3, <2>5
  <2>8. \A y \in R : y \in Nat /\ y < m
      BY <2>3, <2>5
  <2> HIDE DEF R
  <2>9. k - 1 \in Nat /\ ~(k <= k - 1)
      BY <2>2, <2>4
  <2>10. k - 1 \notin N
      BY <2>1, <2>9
  <2>11. Sortable(R)
      BY <2>6, <2>7, <2>9, <2>10
  <2>12. PICK f : InOrder(f, R)
      BY <2>11 DEF Sortable
  <2>13. /\ f \in [1 .. (k - 1) -> R]
         /\ \A i, j \in 1 .. (k - 1) : i < j => f[i] < f[j]
      BY <2>6, <2>12 DEF InOrder
  <2> DEFINE s == [i \in 1 .. k |-> IF i = k THEN m ELSE f[i]]
  <2>14. \A i \in 1 .. k : i # k => i \in 1 .. (k - 1)
      BY <2>2
  <2>15. \A i \in 1 .. k : s[i] \in T
      BY <2>5, <2>7, <2>13, <2>14
  <2>16. ASSUME NEW i \in 1 .. k, NEW j \in 1 .. k, i < j PROVE s[i] < s[j]
    <3>1. i # k /\ i \in 1 .. (k - 1)
        BY <2>2, <2>14, <2>16
    <3>2. s[i] = f[i] /\ f[i] \in R
        BY <2>13, <3>1
    <3>3. CASE j = k
        BY <2>8, <3>2, <3>3
    <3>4. CASE j # k
        BY <2>13, <2>14, <2>16, <3>1, <3>2, <3>4
    <3>5. QED BY <3>3, <3>4
  <2>17. InOrder(s, T)
      BY <2>3, <2>15, <2>16 DEF InOrder
  <2>18. QED BY <2>3, <2>17 DEF Sortable
<1>2. Cardinality(S) \in Nat
    BY FS_CardinalityType
<1>3. QED BY <1>1, <1>2

LEMMA SortedIs ==
    ASSUME NEW S, S \subseteq Nat, IsFiniteSet(S)
    PROVE  /\ Cardinality(S) \in Nat
           /\ InOrder(sorted(S), S)
           /\ \A x \in S : \E i \in 1 .. Cardinality(S) : sorted(S)[i] = x
<1> DEFINE s == sorted(S)
           n == Cardinality(S)
<1>1. n \in Nat
    BY FS_CardinalityType
<1>2. InOrder(s, S)
    BY FiniteSetsSortable DEF Sortable, InOrder, sorted
<1> HIDE DEF s
<1>3. n = Cardinality(1 .. n) /\ IsFiniteSet(1 .. n)
  <2>1. 0 \in Int /\ 1 \in Int /\ n \in Int
      BY <1>1
  <2>2. QED BY <1>1, <2>1, FS_Interval
<1>4. \A i \in 1 .. n : s[i] \in Nat
    BY <1>2 DEF InOrder
<1>5. \A i, j \in 1 .. n : s[i] = s[j] => i = j
  <2> SUFFICES ASSUME NEW i \in 1 .. n, NEW j \in 1 .. n, s[i] = s[j], i # j
               PROVE  FALSE
      OBVIOUS
  <2>1. i < j \/ j < i
      BY <1>1
  <2>2. s[i] < s[j] \/ s[j] < s[i]
      BY <1>2, <2>1 DEF InOrder
  <2>3. QED BY <1>4, <2>2
<1>6. s \in Injection(1 .. n, S)
    BY <1>2, <1>5 DEF InOrder, Injection, IsInjective
<1> HIDE DEF n
<1>7. s \in Surjection(1 .. n, S)
    BY <1>3, <1>6, FS_Injection DEF n
<1>8. QED BY <1>1, <1>2, <1>7 DEF Surjection, n, s

(* The two halves of the list, as lists of the parts of each project.      *)
Projs(d) == sorted(DOMAIN d.priority)
HighParts(d) == [i \in 1 .. Len(Projs(d)) |-> high_part(d, Projs(d)[i])]
PendingParts(d) ==
    [i \in 1 .. Len(Projs(d)) |-> pending_part(d, Projs(d)[Len(Projs(d)) + 1 - i])]

LEMMA ListIs ==
    \A d : fetch_pending_build_list(d) =
               FlattenSeq(HighParts(d)) \o FlattenSeq(PendingParts(d))
BY DEF fetch_pending_build_list, HighParts, PendingParts, Projs

(* what a list holds: a build and whether it is promoted *)
Offers == (Builds \cup {None}) \X BOOLEAN

(* The entries of a sound data base, and what sorted makes of its projects. *)
LEMMA ProjsIs ==
    ASSUME NEW d, Good(d)
    PROVE  /\ Len(Projs(d)) \in Nat
           /\ Projs(d) \in [1 .. Len(Projs(d)) -> DOMAIN d.priority]
           /\ \A i, j \in 1 .. Len(Projs(d)) : i < j => Projs(d)[i] < Projs(d)[j]
           /\ \A p \in DOMAIN d.priority : \E i \in 1 .. Len(Projs(d)) : Projs(d)[i] = p
           /\ DOMAIN d.priority \subseteq Nat
           /\ IsFiniteSet(DOMAIN d.priority)
<1> DEFINE D == DOMAIN d.priority
           n == Cardinality(D)
<1>1. D \subseteq Nat
    BY BuildsAssumption DEF Good, PriorityOK
<1>2. IsFiniteSet(D)
    BY BuildsAssumption, FS_Subset DEF Good, PriorityOK
<1> HIDE DEF D
<1>3. /\ n \in Nat
      /\ InOrder(sorted(D), D)
      /\ \A x \in D : \E i \in 1 .. n : sorted(D)[i] = x
    BY <1>1, <1>2, SortedIs
<1> HIDE DEF n
<1>4. /\ sorted(D) \in [1 .. n -> D]
      /\ \A i, j \in 1 .. n : i < j => sorted(D)[i] < sorted(D)[j]
    BY <1>3 DEF InOrder, n
<1>5. Projs(d) = sorted(D)
    BY DEF Projs, D
<1>6. Len(Projs(d)) = n
    BY <1>3, <1>4, <1>5
<1>7. QED BY <1>1, <1>2, <1>3, <1>4, <1>5, <1>6 DEF D

LEMMA EntriesAre ==
    ASSUME NEW d, Good(d), NEW p \in DOMAIN d.priority
    PROVE  /\ d.priority[p] \in Entry
           /\ d.priority[p].pending \in Seq(Builds)
           /\ d.priority[p].high_priority \in Builds \cup {None}
BY DEF Good, PriorityOK, Entry

LEMMA PartsTyped ==
    ASSUME NEW d, Good(d), NEW p \in DOMAIN d.priority
    PROVE  high_part(d, p) \in Seq(Offers) /\ pending_part(d, p) \in Seq(Offers)
<1> DEFINE q == d.priority[p].pending
           h == d.priority[p].high_priority
<1>1. q \in Seq(Builds) /\ h \in Builds \cup {None}
    BY EntriesAre
<1> HIDE DEF q, h
<1>2. high_part(d, p) = IF h = None THEN <<>> ELSE <<<<h, TRUE>>>>
    BY DEF high_part, h
<1>3. <<h, TRUE>> \in Offers
    BY <1>1 DEF Offers
<1>4. high_part(d, p) \in Seq(Offers)
    BY <1>2, <1>3
<1> DEFINE r == Reverse(q)
<1>5. r \in Seq(Builds) /\ Len(r) = Len(q)
    BY <1>1 DEF Reverse
<1> HIDE DEF r
<1>6. pending_part(d, p) = [i \in 1 .. Len(r) |-> <<r[i], FALSE>>]
    BY DEF pending_part, r, q
<1>7. \A i \in 1 .. Len(r) : <<r[i], FALSE>> \in Offers
  <2>1. \A b \in Builds : <<b, FALSE>> \in Offers
      BY DEF Offers
  <2>2. \A i \in 1 .. Len(r) : r[i] \in Builds
      BY <1>5
  <2>3. QED BY <2>1, <2>2
<1>8. pending_part(d, p) \in Seq(Offers)
  <2> DEFINE m == Len(r)
             v(i) == <<r[i], FALSE>>
  <2>1. m \in Nat
      BY <1>5
  <2>2. \A i \in 1 .. m : v(i) \in Offers
      BY <1>7, Zenon
  <2>3. pending_part(d, p) = [i \in 1 .. m |-> v(i)]
      BY <1>6
  <2> HIDE DEF m, v
  <2>4. QED BY <2>1, <2>2, <2>3
<1>9. QED BY <1>4, <1>8

LEMMA ListTyped ==
    ASSUME NEW d, Good(d)
    PROVE  /\ HighParts(d) \in [1 .. Len(Projs(d)) -> Seq(Offers)]
           /\ PendingParts(d) \in [1 .. Len(Projs(d)) -> Seq(Offers)]
           /\ FlattenSeq(HighParts(d)) \in Seq(Offers)
           /\ FlattenSeq(PendingParts(d)) \in Seq(Offers)
<1> DEFINE n == Len(Projs(d))
           s == Projs(d)
<1>1. n \in Nat /\ \A i \in 1 .. n : s[i] \in DOMAIN d.priority
    BY ProjsIs
<1> HIDE DEF n, s
<1>2. \A i \in 1 .. n : n + 1 - i \in 1 .. n
    BY <1>1
<1>3. \A i \in 1 .. n : high_part(d, s[i]) \in Seq(Offers)
    BY <1>1, PartsTyped
<1>4. \A i \in 1 .. n : pending_part(d, s[n + 1 - i]) \in Seq(Offers)
    BY <1>1, <1>2, PartsTyped
<1>5. HighParts(d) \in [1 .. n -> Seq(Offers)]
    BY <1>3 DEF HighParts, n, s
<1>6. PendingParts(d) \in [1 .. n -> Seq(Offers)]
    BY <1>4 DEF PendingParts, n, s
<1>7. QED BY <1>1, <1>5, <1>6, FlattenTyped DEF n

(* A promoted build: the first offer, gone after extract. *)
LEMMA PromotedFirst ==
    ASSUME NEW d, Good(d), Promoted(d) # {}
    PROVE  /\ is_there_build_to_test(d)
           /\ fetch_pending_build_list(d) =
                  <<find_next_build(d)>> \o fetch_pending_build_list(extract(d))
<1> DEFINE D == DOMAIN d.priority
           p == Lowest(Promoted(d))
           x == find_next_build(d)
           e == extract(d)
           s == Projs(d)
           n == Len(s)
<1>1. /\ n \in Nat /\ s \in [1 .. n -> D]
      /\ \A i, j \in 1 .. n : i < j => s[i] < s[j]
      /\ \A y \in D : \E i \in 1 .. n : s[i] = y
      /\ D \subseteq Nat
    BY ProjsIs
<1>2. p \in Promoted(d) /\ \A y \in Promoted(d) : p <= y
  <2>1. Promoted(d) \subseteq Nat
      BY <1>1 DEF Promoted
  <2>2. \E z \in Promoted(d) : \A y \in Promoted(d) : z <= y
      BY <2>1, Smallest
  <2>3. QED BY <2>2 DEF Lowest
<1> HIDE DEF p
<1>3. p \in D /\ d.priority[p].high_priority # None
    BY <1>2 DEF Promoted
<1>4. x = <<d.priority[p].high_priority, TRUE>>
    BY DEF find_next_build, p
<1>5. is_there_build_to_test(d)
    BY <1>3, <1>4 DEF is_there_build_to_test
<1>6. x \in Offers /\ high_part(d, p) = <<x>>
  <2>1. high_part(d, p) = <<x>>
      BY <1>3, <1>4 DEF high_part
  <2>2. d.priority[p].high_priority \in Builds
      BY <1>3, EntriesAre
  <2>3. x \in Offers
    <3>1. \A b \in Builds : <<b, TRUE>> \in Offers
        BY DEF Offers
    <3>2. QED BY <1>4, <2>2, <3>1, Zenon
  <2>4. QED BY <2>1, <2>3
<1>7. e = [d EXCEPT !.priority[p].high_priority = None]
    BY DEF extract, p
<1>8. Good(e)
    BY ExtractGood
<1>9. /\ DOMAIN e.priority = D
      /\ \A y \in D : y # p => e.priority[y] = d.priority[y]
      /\ \A y \in D : e.priority[y].pending = d.priority[y].pending
      /\ e.priority[p].high_priority = None
  <2>1. "priority" \in DOMAIN d
      BY DEF Good
  <2>2. e.priority = [d.priority EXCEPT ![p].high_priority = None]
      BY <1>7, <2>1
  <2>3. d.priority[p] \in Entry
      BY <1>3, EntriesAre
  <2>4. QED BY <1>3, <2>2, <2>3 DEF Entry
<1> HIDE DEF e, x
<1>10. Projs(e) = s
    BY <1>9 DEF Projs
<1>11. \A y \in D : pending_part(e, y) = pending_part(d, y)
    BY <1>9 DEF pending_part
<1>12. \A y \in D : y # p => high_part(e, y) = high_part(d, y)
    BY <1>9 DEF high_part
<1>13. high_part(e, p) = <<>>
    BY <1>9 DEF high_part
<1>14. PICK k \in 1 .. n : s[k] = p
    BY <1>1, <1>3
<1> DEFINE h == HighParts(d)
           g == HighParts(e)
<1> HIDE DEF s, n
<1>15. /\ h = [i \in 1 .. n |-> high_part(d, s[i])]
       /\ g = [i \in 1 .. n |-> high_part(e, s[i])]
    BY <1>10 DEF HighParts, s, n
<1>16. PendingParts(e) = PendingParts(d)
  <2>1. \A i \in 1 .. n : s[n + 1 - i] \in D
      BY <1>1
  <2>2. QED BY <1>10, <1>11, <2>1 DEF PendingParts, s, n
<1>17. h \in [1 .. n -> Seq(Offers)] /\ g \in [1 .. n -> Seq(Offers)]
  <2>1. h \in [1 .. n -> Seq(Offers)]
      BY ListTyped DEF s, n
  <2>2. Len(Projs(e)) = n
      BY <1>10 DEF n
  <2>3. g \in [1 .. n -> Seq(Offers)]
      BY <1>8, <2>2, ListTyped
  <2>4. QED BY <2>1, <2>3
<1>18. h[k] = <<x>> \o g[k]
  <2>1. h[k] = <<x>>
      BY <1>6, <1>14, <1>15
  <2>2. g[k] = <<>>
      BY <1>13, <1>14, <1>15
  <2>3. <<x>> = <<x>> \o <<>>
      OBVIOUS
  <2>4. QED BY <2>1, <2>2, <2>3
<1>19. \A i \in 1 .. n : i # k => s[i] # p
    BY <1>1, <1>14
<1>20. \A i \in 1 .. n : i # k => h[i] = g[i]
    BY <1>1, <1>12, <1>15, <1>19
<1>21. ASSUME NEW i \in 1 .. n, i < k PROVE h[i] = <<>>
  <2>1. s[i] < p /\ s[i] \in D /\ s[i] \in Nat /\ p \in Nat
      BY <1>1, <1>3, <1>14, <1>21
  <2>2. s[i] \notin Promoted(d)
      BY <1>2, <2>1
  <2>3. d.priority[s[i]].high_priority = None
      BY <2>1, <2>2 DEF Promoted
  <2>4. QED BY <1>15, <2>3 DEF high_part
<1> HIDE DEF h, g
<1>22. HeadIn(h, g, n, k, x)
    BY <1>14, <1>18, <1>20, <1>21 DEF HeadIn
<1>23. HeadFirst(h, g, x)
    BY <1>1, <1>6, <1>17, <1>22, FlattenHead, Zenon
<1> DEFINE a == <<x>>
           b == FlattenSeq(g)
           t == FlattenSeq(PendingParts(d))
<1>24. a \in Seq(Offers) /\ b \in Seq(Offers) /\ t \in Seq(Offers)
    BY <1>6, <1>8, ListTyped DEF g
<1>25. fetch_pending_build_list(d) = FlattenSeq(h) \o t
    BY ListIs DEF h
<1>26. fetch_pending_build_list(e) = b \o t
    BY <1>16, ListIs DEF g
<1> HIDE DEF a, b, t
<1>27. InTurn(a, b, t)
    BY <1>24, ConcatInTurn, Zenon
<1>28. QED BY <1>5, <1>23, <1>25, <1>26, <1>27 DEF InTurn, HeadFirst, a, b, e, x

(* With nothing promoted, the newest build of the newest project that has  *)
(* any is the first offer, and extract takes just that one.                *)
LEMMA HighPartsEmpty ==
    ASSUME NEW d, Good(d), Promoted(d) = {}
    PROVE  FlattenSeq(HighParts(d)) = <<>>
<1> DEFINE n == Len(Projs(d))
           s == Projs(d)
<1>1. n \in Nat /\ \A i \in 1 .. n : s[i] \in DOMAIN d.priority
    BY ProjsIs
<1> HIDE DEF n, s
<1>2. \A i \in 1 .. n : high_part(d, s[i]) = <<>>
    BY <1>1 DEF Promoted, high_part
<1>3. HighParts(d) = [i \in 1 .. n |-> <<>>]
    BY <1>2 DEF HighParts, n, s
<1>4. QED BY <1>1, <1>3, FlattenEmpty

LastFirst(d, e, p, q) ==
    pending_part(d, p) = <<<<q[Len(q)], FALSE>>>> \o pending_part(e, p)

LEMMA LastOfPending ==
    ASSUME NEW d, NEW e, NEW p, NEW q \in Seq(Builds), Len(q) # 0,
           d.priority[p].pending = q,
           e.priority[p].pending = SubSeq(q, 1, Len(q) - 1)
    PROVE  LastFirst(d, e, p, q)
<1> DEFINE n == Len(q)
           t == SubSeq(q, 1, n - 1)
           v(b) == <<b, FALSE>>
           W == {v(b) : b \in Builds}
<1>1. n \in Nat \ {0} /\ t \in Seq(Builds) /\ Len(t) = n - 1
      /\ \A i \in 1 .. (n - 1) : t[i] = q[i]
  <2>1. n \in Nat \ {0} /\ 1 \in 1 .. (n + 1) /\ n - 1 \in 0 .. n
      OBVIOUS
  <2>2. CASE n = 1
    <3>1. t = <<>>
        BY <2>2
    <3>2. QED BY <2>1, <2>2, <3>1
  <2>3. CASE n # 1
    <3> HIDE DEF n
    <3>1. n - 1 \in 1 .. n
        BY <2>1, <2>3
    <3> USE DEF n
    <3>2. t \in Seq(Builds)
        BY <3>1
    <3>3. Len(t) = n - 1
        BY <3>1
    <3>4. \A i \in 1 .. (n - 1) : t[i] = q[i]
        BY <3>1
    <3>5. QED BY <2>1, <3>2, <3>3, <3>4
  <2>4. QED BY <2>2, <2>3
<1>2. /\ Len(Reverse(q)) = n /\ \A i \in 1 .. n : Reverse(q)[i] = q[n - i + 1]
      /\ Len(Reverse(t)) = n - 1
      /\ \A i \in 1 .. (n - 1) : Reverse(t)[i] = t[(n - 1) - i + 1]
    BY <1>1 DEF Reverse
<1>0. \A b \in Builds : v(b) \in W
    OBVIOUS
<1> HIDE DEF t, v, W
<1>3. pending_part(d, p) = [i \in 1 .. n |-> v(Reverse(q)[i])]
    BY <1>2, Zenon DEF pending_part, v, n
<1>4. pending_part(e, p) = [i \in 1 .. (n - 1) |-> v(Reverse(t)[i])]
    BY <1>2, Zenon DEF pending_part, v, t, n
<1> DEFINE a == pending_part(d, p)
           b == pending_part(e, p)
           c == <<v(q[n])>> \o b
<1> HIDE DEF n
<1>5. a \in Seq(W) /\ Len(a) = n
      /\ \A i \in 1 .. n : a[i] = v(q[n - i + 1])
    <2>1. \A i \in 1 .. n : Reverse(q)[i] \in Builds
        BY <1>1, <1>2 DEF n
    <2>2. QED BY <1>0, <1>1, <1>2, <1>3, <2>1
<1>6. b \in Seq(W) /\ Len(b) = n - 1
      /\ \A i \in 1 .. (n - 1) : b[i] = v(q[n - i])
    <2>1. \A i \in 1 .. (n - 1) : /\ (n - 1) - i + 1 = n - i
                                  /\ n - i \in 1 .. (n - 1)
        BY <1>1
    <2>2. \A i \in 1 .. (n - 1) : Reverse(t)[i] = q[n - i]
        BY <1>1, <1>2, <2>1
    <2>3. \A i \in 1 .. (n - 1) : q[n - i] \in Builds
        BY <1>1, <2>1 DEF n
    <2>4. \A i \in 1 .. (n - 1) : v(Reverse(t)[i]) \in W
        BY <1>0, <2>2, <2>3
    <2>5. n - 1 \in Nat
        BY <1>1
    <2> DEFINE k == n - 1
               w(i) == v(Reverse(t)[i])
    <2>6. k \in Nat /\ b = [i \in 1 .. k |-> w(i)] /\ \A i \in 1 .. k : w(i) \in W
        BY <1>4, <2>4, <2>5
    <2> HIDE DEF k, w, b
    <2>7. b \in Seq(W) /\ Len(b) = k /\ \A i \in 1 .. k : b[i] = w(i)
        BY <2>6
    <2>8. QED BY <2>2, <2>7 DEF k, w
<1>7. v(q[n]) \in W
    BY <1>0, <1>1 DEF n
<1> HIDE DEF a, b
<1>8. c \in Seq(W) /\ Len(c) = n /\ c[1] = v(q[n])
      /\ \A i \in 2 .. n : c[i] = b[i - 1]
    BY <1>1, <1>6, <1>7
<1>9. \A i \in 1 .. n : a[i] = c[i]
  <2> SUFFICES ASSUME NEW i \in 1 .. n PROVE a[i] = c[i]
      OBVIOUS
  <2>1. CASE i = 1
      BY <1>1, <1>5, <1>8, <2>1
  <2>2. CASE i # 1
    <3>1. i \in 2 .. n /\ i - 1 \in 1 .. (n - 1) /\ n - (i - 1) = n - i + 1
        BY <1>1, <2>2
    <3>2. a[i] = v(q[n - i + 1])
        BY <1>5
    <3>3. b[i - 1] = v(q[n - (i - 1)])
        BY <1>6, <3>1
    <3>4. QED BY <1>8, <3>1, <3>2, <3>3
  <2>3. QED BY <2>1, <2>2
<1> HIDE DEF c
<1>10. a = c
    BY <1>1, <1>5, <1>8, <1>9
<1>11. QED BY <1>10 DEF a, b, c, v, n, LastFirst

LEMMA PendingFirst ==
    ASSUME NEW d, Good(d), Promoted(d) = {}, Waiting(d) # {}
    PROVE  /\ is_there_build_to_test(d)
           /\ fetch_pending_build_list(d) =
                  <<find_next_build(d)>> \o fetch_pending_build_list(extract(d))
<1> DEFINE D == DOMAIN d.priority
           p == Highest(Waiting(d))
           q == d.priority[p].pending
           x == find_next_build(d)
           e == extract(d)
           s == Projs(d)
           n == Len(s)
<1>1. /\ n \in Nat /\ s \in [1 .. n -> D]
      /\ \A i, j \in 1 .. n : i < j => s[i] < s[j]
      /\ \A y \in D : \E i \in 1 .. n : s[i] = y
      /\ D \subseteq Nat
      /\ IsFiniteSet(D)
    BY ProjsIs
<1>2. p \in Waiting(d) /\ \A y \in Waiting(d) : y <= p
  <2>1. Waiting(d) \subseteq D
      BY DEF Waiting
  <2>2. Waiting(d) \subseteq Nat /\ IsFiniteSet(Waiting(d))
      BY <1>1, <2>1, FS_Subset
  <2>3. \E z \in Waiting(d) : \A y \in Waiting(d) : y <= z
      BY <2>2, Largest
  <2>4. QED BY <2>3 DEF Highest
<1>3. p \in D /\ q # <<>>
    BY <1>2 DEF Waiting
<1>4. x = <<q[Len(q)], FALSE>>
    BY Zenon DEF find_next_build
<1>5. e = [d EXCEPT !.priority[p].pending = SubSeq(@, 1, Len(@) - 1)]
    BY DEF extract
<1> HIDE DEF p
<1>6. q \in Seq(Builds) /\ Len(q) # 0
    BY <1>3, EntriesAre
<1>7. q[Len(q)] \in Builds
    BY <1>6
<1>8. is_there_build_to_test(d)
  <2>1. x[1] = q[Len(q)]
      BY <1>4
  <2>2. QED BY <1>7, <2>1, BuildsAssumption DEF is_there_build_to_test
<1>9. x \in Offers
  <2>1. \A b \in Builds : <<b, FALSE>> \in Offers
      BY DEF Offers
  <2>2. QED BY <1>4, <1>7, <2>1, Zenon
<1>10. Good(e)
    BY ExtractGood
<1>11. /\ DOMAIN e.priority = D
       /\ \A y \in D : y # p => e.priority[y] = d.priority[y]
       /\ \A y \in D : e.priority[y].high_priority = d.priority[y].high_priority
       /\ e.priority[p].pending = SubSeq(q, 1, Len(q) - 1)
  <2>1. "priority" \in DOMAIN d
      BY DEF Good
  <2>2. e.priority = [d.priority EXCEPT ![p].pending = SubSeq(@, 1, Len(@) - 1)]
      BY <1>5, <2>1
  <2>3. d.priority[p] \in Entry
      BY <1>3, EntriesAre
  <2>4. QED BY <1>3, <2>2, <2>3 DEF Entry
<1> HIDE DEF e, x, q
<1>12. Projs(e) = s
    BY <1>11 DEF Projs
<1>13. Promoted(e) = {}
    BY <1>11 DEF Promoted
<1>14. \A y \in D : y # p => pending_part(e, y) = pending_part(d, y)
    BY <1>11 DEF pending_part
<1>15. pending_part(d, p) = <<x>> \o pending_part(e, p)
  <2>1. d.priority[p].pending = q
      BY DEF q
  <2>2. LastFirst(d, e, p, q)
      BY <1>6, <1>11, <2>1, LastOfPending, Zenon
  <2>3. QED BY <1>4, <2>2 DEF LastFirst
<1>16. PICK i0 \in 1 .. n : s[i0] = p
    BY <1>1, <1>3
<1> DEFINE h == PendingParts(d)
           g == PendingParts(e)
           k == n + 1 - i0
<1> HIDE DEF s, n
<1>17. /\ h = [i \in 1 .. n |-> pending_part(d, s[n + 1 - i])]
       /\ g = [i \in 1 .. n |-> pending_part(e, s[n + 1 - i])]
    BY <1>12 DEF PendingParts, s, n
<1>18. h \in [1 .. n -> Seq(Offers)] /\ g \in [1 .. n -> Seq(Offers)]
  <2>1. h \in [1 .. n -> Seq(Offers)]
      BY ListTyped DEF s, n
  <2>2. Len(Projs(e)) = n
      BY <1>12 DEF n
  <2>3. g \in [1 .. n -> Seq(Offers)]
      BY <1>10, <2>2, ListTyped
  <2>4. QED BY <2>1, <2>3
<1>19. k \in 1 .. n /\ n + 1 - k = i0 /\ \A i \in 1 .. n : n + 1 - i \in 1 .. n
    BY <1>1
<1>20. h[k] = <<x>> \o g[k]
    BY <1>15, <1>16, <1>17, <1>19
<1>21. \A i \in 1 .. n : i # i0 => s[i] # p
    BY <1>1, <1>16
<1>22. ASSUME NEW i \in 1 .. n, i # k PROVE h[i] = g[i]
  <2>1. n + 1 - i \in 1 .. n /\ n + 1 - i # i0
      BY <1>1, <1>19, <1>22
  <2>2. s[n + 1 - i] \in D /\ s[n + 1 - i] # p
      BY <1>1, <1>21, <2>1
  <2>3. QED BY <1>14, <1>17, <2>2
<1>23. ASSUME NEW i \in 1 .. n, i < k PROVE h[i] = <<>>
  <2> DEFINE y == s[n + 1 - i]
  <2>1. n + 1 - i \in 1 .. n /\ i0 < n + 1 - i
      BY <1>1, <1>19, <1>23
  <2>2. p < y /\ y \in D /\ y \in Nat /\ p \in Nat
      BY <1>1, <1>3, <1>16, <2>1
  <2>3. y \notin Waiting(d)
      BY <1>2, <2>2
  <2>4. d.priority[y].pending = <<>>
      BY <2>2, <2>3 DEF Waiting
  <2>5. h[i] = pending_part(d, y)
      BY <1>17
  <2> HIDE DEF y
  <2>6. pending_part(d, y) = <<>>
      BY <2>4 DEF pending_part, Reverse
  <2>7. QED BY <2>5, <2>6
<1> HIDE DEF h, g, k
<1>24. HeadIn(h, g, n, k, x)
    BY <1>19, <1>20, <1>22, <1>23 DEF HeadIn
<1>25. HeadFirst(h, g, x)
    BY <1>1, <1>9, <1>18, <1>24, FlattenHead, Zenon
<1>26. fetch_pending_build_list(d) = FlattenSeq(h)
  <2>1. FlattenSeq(h) \in Seq(Offers)
      BY ListTyped DEF h
  <2>2. fetch_pending_build_list(d) = <<>> \o FlattenSeq(h)
      BY ListIs, HighPartsEmpty DEF h
  <2>3. QED BY <2>1, <2>2
<1>27. fetch_pending_build_list(e) = FlattenSeq(g)
  <2>1. FlattenSeq(g) \in Seq(Offers)
      BY <1>10, ListTyped DEF g
  <2>2. fetch_pending_build_list(e) = <<>> \o FlattenSeq(g)
      BY <1>10, <1>13, ListIs, HighPartsEmpty DEF g
  <2>3. QED BY <2>1, <2>2
<1>28. QED BY <1>8, <1>25, <1>26, <1>27 DEF HeadFirst, e, x

LEMMA NothingListed ==
    ASSUME NEW d, Good(d), Promoted(d) = {}, Waiting(d) = {}
    PROVE  ~is_there_build_to_test(d) /\ fetch_pending_build_list(d) = <<>>
<1> DEFINE n == Len(Projs(d))
           s == Projs(d)
<1>1. ~is_there_build_to_test(d)
    BY DEF is_there_build_to_test, find_next_build
<1>2. n \in Nat /\ s \in [1 .. n -> DOMAIN d.priority]
    BY ProjsIs
<1> HIDE DEF n, s
<1>3. \A i \in 1 .. n : s[n + 1 - i] \in DOMAIN d.priority
    BY <1>2
<1>4. \A y \in DOMAIN d.priority : d.priority[y].pending = <<>>
    BY DEF Waiting
<1>5. ASSUME NEW y \in DOMAIN d.priority PROVE pending_part(d, y) = <<>>
  <2>1. d.priority[y].pending = <<>>
      BY <1>4
  <2>2. QED BY <2>1 DEF pending_part, Reverse
<1>6. PendingParts(d) = [i \in 1 .. n |-> <<>>]
    BY <1>3, <1>5 DEF PendingParts, n, s
<1>7. FlattenSeq(PendingParts(d)) = <<>>
    BY <1>2, <1>6, FlattenEmpty
<1>8. fetch_pending_build_list(d) = <<>> \o <<>>
    BY <1>7, ListIs, HighPartsEmpty
<1>9. QED BY <1>1, <1>8

(* One call of get_build takes the head off the list, or there is none.    *)
HeadTaken(d) ==
    \/ /\ is_there_build_to_test(d)
       /\ fetch_pending_build_list(d) =
              <<find_next_build(d)>> \o fetch_pending_build_list(extract(d))
    \/ ~is_there_build_to_test(d) /\ fetch_pending_build_list(d) = <<>>

LEMMA GetBuildTakesHead ==
    ASSUME NEW d, Good(d)
    PROVE  HeadTaken(d) /\ fetch_pending_build_list(d) \in Seq(Offers)
<1>1. HeadTaken(d)
  <2>1. CASE Promoted(d) # {}
      BY <2>1, PromotedFirst DEF HeadTaken
  <2>2. CASE Promoted(d) = {} /\ Waiting(d) # {}
      BY <2>2, PendingFirst DEF HeadTaken
  <2>3. CASE Promoted(d) = {} /\ Waiting(d) = {}
      BY <2>3, NothingListed DEF HeadTaken
  <2>4. QED BY <2>1, <2>2, <2>3
<1>2. fetch_pending_build_list(d) \in Seq(Offers)
  <2> DEFINE a == FlattenSeq(HighParts(d))
             b == FlattenSeq(PendingParts(d))
  <2>1. a \in Seq(Offers) /\ b \in Seq(Offers)
      BY ListTyped
  <2>2. fetch_pending_build_list(d) = a \o b
      BY ListIs
  <2> HIDE DEF a, b
  <2>3. QED BY <2>1, <2>2
<1>3. QED BY <1>1, <1>2

(* Drained is defined by recursion; its equations hold. *)
Extracts(a, d, n) == a[0] = d /\ \A i \in 1 .. n : a[i] = extract(a[i - 1])

LEMMA DrainedExtracts ==
    ASSUME NEW d, NEW list, Len(list) \in Nat
    PROVE  Extracts(Drained(d, list), d, Len(list))
<1> DEFINE n == Len(list)
           next(f, i) == IF i = 0 THEN d ELSE extract(f[i - 1])
           after[i \in 0 .. Len(list)] == IF i = 0 THEN d ELSE extract(after[i - 1])
<1>1. Drained(d, list) = after
    BY DEF Drained
<1>2. after = CHOOSE f : f = [i \in 0 .. n |-> next(f, i)]
    BY DEF after
<1> HIDE DEF after
<1>3. n \in Nat /\ n = Len(list)
    OBVIOUS
<1> HIDE DEF n
<1> DEFINE Upto(k) == \E f : f = [i \in 0 .. k |-> next(f, i)]
           Short == {k \in 0 .. n : ~Upto(k)}
<1> HIDE DEF Upto
<1>4. Short \subseteq Nat
    OBVIOUS
<1>5. ASSUME NEW k \in 0 .. n, ~Upto(k) PROVE k \in Short
    BY <1>5
<1>6. ASSUME Short # {} PROVE FALSE
  <2>1. PICK k \in Short : \A j \in Short : k <= j
      BY <1>4, <1>6, Smallest
  <2>2. k \in 0 .. n /\ ~Upto(k)
      BY <2>1
  <2> USE DEF Upto
  <2>3. k # 0
    <3> DEFINE f == [i \in 0 .. 0 |-> d]
    <3>1. f = [i \in 0 .. 0 |-> next(f, i)]
        OBVIOUS
    <3> HIDE DEF f
    <3>2. Upto(0)
        BY <3>1
    <3>3. QED BY <2>2, <3>2
  <2>4. k - 1 \in 0 .. n /\ k \in Nat /\ k - 1 < k
      BY <1>3, <2>2, <2>3
  <2> HIDE DEF Short
  <2>5. k - 1 \notin Short
      BY <1>4, <2>1, <2>4
  <2>6. Upto(k - 1)
      BY <2>4, <2>5, <1>5
  <2>7. PICK f : f = [i \in 0 .. (k - 1) |-> next(f, i)]
      BY <2>6
  <2> DEFINE g == [i \in 0 .. k |-> IF i = k THEN next(f, k) ELSE f[i]]
  <2>8. \A i \in 0 .. k : i = k \/ i \in 0 .. (k - 1)
      BY <2>4
  <2> HIDE DEF next
  <2>9. \A i \in 0 .. (k - 1) : f[i] = next(f, i)
      BY <2>7
  <2>10. \A i \in 0 .. (k - 1) : i \in 0 .. k /\ i # k /\ (i # 0 => i - 1 \in 0 .. (k - 1))
      BY <2>4
  <2>11. \A i \in 0 .. (k - 1) : g[i] = f[i]
      BY <2>10
  <2>12. k \in 0 .. k /\ k - 1 \in 0 .. (k - 1) /\ g[k] = next(f, k)
      BY <2>3, <2>4
  <2>13. DOMAIN g = 0 .. k /\ g = [i \in 0 .. k |-> g[i]]
      OBVIOUS
  <2> HIDE DEF g
  <2>14. next(f, k) = next(g, k)
      BY <2>11, <2>12 DEF next
  <2>15. \A i \in 0 .. (k - 1) : next(f, i) = next(g, i)
      BY <2>10, <2>11 DEF next
  <2>16. \A i \in 0 .. k : g[i] = next(g, i)
      BY <2>8, <2>9, <2>11, <2>12, <2>14, <2>15
  <2>17. g = [i \in 0 .. k |-> next(g, i)]
      BY <2>13, <2>16
  <2>18. QED BY <2>2, <2>17
<1>7. Upto(n)
    BY <1>3, <1>5, <1>6
<1>8. after = [i \in 0 .. n |-> next(after, i)]
    BY <1>2, <1>7 DEF Upto
<1> HIDE DEF next
<1>9. \A i \in 0 .. n : after[i] = next(after, i)
    BY <1>8
<1>10. Extracts(after, d, n)
  <2>1. 0 \in 0 .. n /\ \A i \in 1 .. n : i \in 0 .. n /\ i # 0
      BY <1>3
  <2>2. QED BY <1>9, <2>1 DEF next, Extracts
<1>11. QED BY <1>1, <1>3, <1>10

(* What is left to list after i calls is the list without its first i.     *)
LEMMA ListIsDrained ==
    ASSUME NEW d, Good(d)
    PROVE  LET list == fetch_pending_build_list(d)
               after == Drained(d, list)
           IN  /\ \A i \in 1 .. Len(list) : find_next_build(after[i - 1]) = list[i]
               /\ ~is_there_build_to_test(after[Len(list)])
<1> DEFINE list == fetch_pending_build_list(d)
           after == Drained(d, list)
           n == Len(list)
           rest(i) == fetch_pending_build_list(after[i])
           Fine(i) == /\ Good(after[i])
                      /\ Len(rest(i)) = n - i
                      /\ \A j \in 1 .. (n - i) : rest(i)[j] = list[i + j]
           Bad == {i \in 0 .. n : ~Fine(i)}
<1>1. list \in Seq(Offers) /\ n \in Nat
    BY GetBuildTakesHead
<1> HIDE DEF list
<1>2. after[0] = d /\ \A i \in 1 .. n : after[i] = extract(after[i - 1])
    BY <1>1, DrainedExtracts DEF Extracts
<1> HIDE DEF after, n
<1>3. Fine(0)
  <2>1. rest(0) = list
      BY <1>2 DEF list
  <2>2. Len(list) = n /\ n - 0 = n /\ \A j \in 1 .. n : 0 + j = j
      BY <1>1 DEF n
  <2>3. QED BY <1>2, <2>1, <2>2
<1>4. ASSUME NEW i \in 1 .. n, Fine(i - 1)
      PROVE  Fine(i) /\ find_next_build(after[i - 1]) = list[i]
  <2> DEFINE e == after[i - 1]
             x == find_next_build(e)
             r == rest(i - 1)
             t == rest(i)
             m == n - i
  <2>1. /\ m \in Nat /\ n - (i - 1) = m + 1
        /\ i - 1 + 1 = i /\ 1 \in 1 .. (m + 1)
        /\ \A j \in 1 .. m : /\ j + 1 \in 1 .. (m + 1)
                             /\ i - 1 + (j + 1) = i + j
      BY <1>1
  <2>2. after[i] = extract(e)
      BY <1>2
  <2>3. Good(e) /\ Len(r) = m + 1 /\ \A j \in 1 .. (m + 1) : r[j] = list[i - 1 + j]
      BY <1>4, <2>1
  <2>4. Good(after[i])
      BY <2>2, <2>3, ExtractGood
  <2>5. HeadTaken(e) /\ t \in Seq(Offers)
      BY <2>3, <2>4, GetBuildTakesHead
  <2>6. r # <<>>
      BY <2>1, <2>3
  <2>7. r = <<x>> \o t
      BY <2>2, <2>5, <2>6 DEF HeadTaken
  <2> HIDE DEF m, t, r, x
  <2>8. /\ r[1] = x /\ Len(r) = Len(t) + 1 /\ Len(t) \in Nat
        /\ \A j \in 1 .. Len(t) : r[j + 1] = t[j]
      BY <2>5, <2>7
  <2>9. Len(t) = m
      BY <2>1, <2>3, <2>8
  <2>10. x = list[i]
      BY <2>1, <2>3, <2>8
  <2>11. \A j \in 1 .. m : t[j] = list[i + j]
      BY <2>1, <2>3, <2>8, <2>9
  <2>12. QED BY <2>4, <2>9, <2>10, <2>11 DEF m, t, x
<1>5. ASSUME Bad # {} PROVE FALSE
  <2>1. Bad \subseteq Nat
      BY <1>1
  <2>2. PICK k \in Bad : \A j \in Bad : k <= j
      BY <1>5, <2>1, Smallest
  <2> HIDE DEF Fine
  <2>3. k \in 0 .. n /\ ~Fine(k)
      BY <2>2
  <2>4. k \in 1 .. n /\ k - 1 \in 0 .. n /\ ~(k <= k - 1)
      BY <1>1, <1>3, <2>3
  <2>5. k - 1 \notin Bad
      BY <2>2, <2>4
  <2>6. QED BY <1>4, <2>3, <2>4, <2>5
<1> HIDE DEF Fine
<1>6. \A i \in 0 .. n : Fine(i)
    BY <1>5
<1>7. ASSUME NEW i \in 1 .. n PROVE find_next_build(after[i - 1]) = list[i]
  <2>1. i - 1 \in 0 .. n
      BY <1>1
  <2>2. QED BY <1>4, <1>6, <2>1
<1>8. ~is_there_build_to_test(after[n])
  <2>1. Fine(n)
      BY <1>1, <1>6
  <2> DEFINE r == rest(n)
  <2>2. Good(after[n]) /\ Len(r) = 0
      BY <1>1, <2>1 DEF Fine
  <2>3. HeadTaken(after[n])
      BY <2>2, GetBuildTakesHead
  <2>4. SUFFICES ASSUME is_there_build_to_test(after[n]) PROVE FALSE
      OBVIOUS
  <2> DEFINE t == fetch_pending_build_list(extract(after[n]))
             x == find_next_build(after[n])
  <2>5. r = <<x>> \o t /\ t \in Seq(Offers)
      BY <2>2, <2>3, <2>4, ExtractGood, GetBuildTakesHead DEF HeadTaken
  <2> HIDE DEF t, x, r
  <2>6. Len(r) = Len(t) + 1 /\ Len(t) \in Nat
      BY <2>5
  <2>7. QED BY <2>2, <2>6
<1>9. QED BY <1>7, <1>8 DEF list, after, n

(* The list rtc_cli shows between two requests is the order in which       *)
(* get_build hands the builds out: the two loops of                        *)
(* fetch_pending_build_list agree with find_next_build, for any number of  *)
(* projects and builds.                                                    *)
THEOREM ListedInTestOrder == Spec => []ListIsTestOrder
<1>1. IndInv => ListIsTestOrder
    BY ListIsDrained DEF IndInv, ListIsTestOrder
<1>2. QED BY <1>1, IndInvHolds, PTL

=============================================================================
