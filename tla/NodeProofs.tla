----------------------------- MODULE NodeProofs -----------------------------
(***************************************************************************)
(* Proofs about a node (hss_utils.node): its connections, for any number   *)
(* of commands, timeouts and lost connections, the threads that monitor    *)
(* its alarms, for any alarms, samples and outages, and the operations on  *)
(* a CBA node, for any lines refused, reports, reloads and lost sessions.  *)
(***************************************************************************)
EXTENDS NodeConnections, Alarms, CbaNode, FiniteSetTheorems, TLAPS

Entries == [known : BOOLEAN, opened : BOOLEAN, ready : BOOLEAN, autoclose : BOOLEAN,
            channel : BOOLEAN, extended : BOOLEAN, alive : BOOLEAN, prompted : BOOLEAN,
            half : BOOLEAN]

Opening == {"login", "setup", "second"}

Calls == [pc : {"idle", "opened", "answer"} \cup Opening, id : Ids \cup {None},
          op : {"none", "command", "async", "clone", "stop"}, cmd : Nat]

Typed ==
    /\ conn \in [Ids -> Entries]
    /\ busy \in [Ids -> Seq(Nat)] /\ pipe \in [Ids -> Seq(Nat)]
    /\ clean \in [Ids -> BOOLEAN]
    /\ client \in Calls /\ (client.pc # "idle" => client.id \in Ids)
    /\ sent \in Nat /\ async \in Nat

(* An asynchronous command is only sent to Bg, the only clone; who waits   *)
(* for an answer has an open session.                                      *)
CallOK ==
    /\ client.pc \in {"opened"} \cup Opening /\ client.op \in {"async", "clone"} => client.id = Bg
    /\ client.pc \in {"opened", "answer"} => conn[client.id].opened

At(c) == client.pc # "idle" /\ client.id = c

LoggingIn(c) == At(c) /\ client.pc \in Opening

(* The prompt that may still come on c. *)
Due(c) ==
    IF ~At(c) THEN (IF c = Bg /\ async # 0 THEN {async} ELSE {})
    ELSE IF client.pc \in {"login", "second"} THEN {0}
    ELSE IF client.pc = "answer" THEN {client.cmd} ELSE {}

Empty(c) == pipe[c] = <<>> /\ busy[c] = <<>>

Holds(c, x) ==
    \/ pipe[c] = <<x>> /\ busy[c] = <<>>
    \/ pipe[c] = <<>> /\ busy[c] = <<x>>

(* What is on its way on a clean and open session is the one prompt that   *)
(* is due. An open channel has the session's prompt already, so a second   *)
(* open on it is not clean.                                                *)
InStep(c) ==
    clean[c] /\ (conn[c].opened \/ LoggingIn(c)) =>
        Empty(c) \/ \E x \in Due(c) : Holds(c, x)

Prompted(c) ==
    /\ ChannelOpened(c) => conn[c].prompted
    /\ LoggingIn(c) => ChannelOpened(c)

(* A session that is ready has its channel, and is open while that lives,   *)
(* or its set-up is still to be done.                                       *)
Kept(c) ==
    c # Bg /\ conn[c].ready => ChannelOpened(c) /\ (conn[c].alive => conn[c].opened \/ conn[c].half)

Good(c) == InStep(c) /\ Prompted(c) /\ Kept(c)

NodeInv == Typed /\ CallOK /\ AnswersInStep /\ \A c \in Ids : Good(c)

----------------------------------------------------------------------------
LEMMA Distinct == /\ Main \in Ids /\ Ext \in Ids /\ Bg \in Ids
                  /\ Main # Ext /\ Main # Bg /\ Ext # Bg /\ None \notin Ids
BY IdsAssumption DEF Ids

LEMMA AbsentType ==
    ASSUME NEW r, r = Absent \/ r = [Absent EXCEPT !.known = TRUE]
    PROVE  /\ r \in Entries /\ ~r.opened /\ ~r.ready
           /\ ~r.channel /\ ~r.extended /\ ~r.alive /\ ~r.prompted
<1>1. CASE r = Absent
    BY <1>1 DEF Absent, Entries
<1>2. CASE r = [Absent EXCEPT !.known = TRUE]
    BY <1>2 DEF Absent, Entries
<1>3. QED BY <1>1, <1>2

LEMMA SpawnedType ==
    ASSUME NEW r \in Entries
    PROVE  /\ Spawned(r) \in Entries
           /\ Spawned(r).channel /\ Spawned(r).alive /\ ~Spawned(r).prompted
           /\ Spawned(r).opened = r.opened /\ Spawned(r).ready = r.ready
           /\ Spawned(r).extended = r.extended
BY DEF Spawned, Entries

LEMMA ClosedType ==
    ASSUME NEW r \in Entries
    PROVE  /\ Closed(r) \in Entries
           /\ ~Closed(r).channel /\ ~Closed(r).alive /\ ~Closed(r).prompted
           /\ Closed(r).opened = r.opened /\ Closed(r).ready = r.ready
BY DEF Closed, Entries

(* A step at one identity leaves the others as they are. *)
Aside(c) ==
    \A d \in Ids : d # c => /\ conn'[d] = conn[d] /\ busy'[d] = busy[d]
                            /\ pipe'[d] = pipe[d] /\ clean'[d] = clean[d]

LEMMA OthersGood ==
    ASSUME NEW c \in Ids, NEW d \in Ids, d # c, Aside(c), Good(d),
           ~At(d), ~At(d)', c # Bg => async' = async
    PROVE  Good(d)'
<1>1. /\ conn'[d] = conn[d] /\ busy'[d] = busy[d] /\ pipe'[d] = pipe[d]
      /\ clean'[d] = clean[d]
    BY DEF Aside
<1>2. Due(d)' = Due(d) /\ LoggingIn(d)' = LoggingIn(d)
  <2>1. d = Bg => async' = async
      OBVIOUS
  <2>2. LoggingIn(d) = FALSE /\ LoggingIn(d)' = FALSE
      BY DEF LoggingIn
  <2>3. QED BY <2>1, <2>2 DEF Due
<1>3. ChannelOpened(d)' <=> ChannelOpened(d)
    BY <1>1 DEF ChannelOpened
<1>4. InStep(d)'
    BY <1>1, <1>2 DEF Good, InStep, Empty, Holds
<1>5. Prompted(d)' /\ Kept(d)'
    BY <1>1, <1>2, <1>3 DEF Good, Prompted, Kept
<1>6. QED BY <1>4, <1>5 DEF Good

(* The three parts of a step at c. *)
LEMMA StepAt ==
    ASSUME NodeInv, NEW c \in Ids, Aside(c), Typed', CallOK', Good(c)',
           c # Bg => async' = async, AnswersInStep',
           client.pc = "idle" \/ client.id = c, client'.pc = "idle" \/ client'.id = c
    PROVE  NodeInv'
<1>1. ASSUME NEW d \in Ids, d # c PROVE Good(d)'
  <2>1. ~At(d) /\ ~At(d)'
      BY <1>1 DEF At
  <2>2. QED BY <1>1, <2>1, OthersGood DEF NodeInv
<1>2. QED BY <1>1 DEF NodeInv

LEMMA SetKeeps ==
    ASSUME Typed, NEW c \in Ids, NEW r \in Entries, Set(c, r)
    PROVE  /\ conn' \in [Ids -> Entries] /\ conn'[c] = r
           /\ \A d \in Ids : d # c => conn'[d] = conn[d]
BY DEF Typed, Set

LEMMA SetPipeKeeps ==
    ASSUME Typed, NEW c \in Ids, NEW b \in Seq(Nat), NEW p \in Seq(Nat), SetPipe(c, b, p)
    PROVE  /\ busy' \in [Ids -> Seq(Nat)] /\ pipe' \in [Ids -> Seq(Nat)]
           /\ busy'[c] = b /\ pipe'[c] = p
           /\ \A d \in Ids : d # c => busy'[d] = busy[d] /\ pipe'[d] = pipe[d]
BY DEF Typed, SetPipe

LEMMA SetCleanKeeps ==
    ASSUME Typed, NEW c \in Ids, NEW ok \in BOOLEAN, clean' = [clean EXCEPT ![c] = ok]
    PROVE  /\ clean' \in [Ids -> BOOLEAN] /\ clean'[c] = ok
           /\ \A d \in Ids : d # c => clean'[d] = clean[d]
BY DEF Typed

LEMMA IdleType == Idle \in Calls /\ Idle.pc = "idle"
BY DEF Idle, Calls

LEMMA EmptySeq == <<>> \in Seq(Nat)
OBVIOUS

LEMMA AppendOne ==
    ASSUME NEW s \in Seq(Nat), NEW n \in Nat
    PROVE  Append(s, n) \in Seq(Nat) /\ (s = <<>> => Append(s, n) = <<n>>)
<1>1. Append(s, n) \in Seq(Nat)
    OBVIOUS
<1>2. Append(<<>>, n) = <<n>>
    OBVIOUS
<1>3. QED BY <1>1, <1>2

----------------------------------------------------------------------------
(* Making connections.                                                     *)

(* A fresh entry: no session, nothing in the pipes. *)
LEMMA FreshGood ==
    ASSUME NEW c \in Ids, client.pc = "idle", client' = client, ~conn'[c].opened,
           ~conn'[c].ready, ~ChannelOpened(c)'
    PROVE  Good(c)'
BY DEF Good, InStep, Prompted, Kept, LoggingIn, At

LEMMA CreateKeeps ==
    ASSUME NodeInv, Create
    PROVE  NodeInv'
<1> DEFINE r == [Absent EXCEPT !.known = TRUE]
<1>1. /\ Typed /\ client.pc = "idle" /\ Set(Main, r) /\ SetPipe(Main, <<>>, <<>>)
      /\ UNCHANGED <<client, sent, async, clean, last>>
    BY DEF NodeInv, Create, Ready
<1>2. r \in Entries /\ ~r.opened /\ ~r.ready /\ ~r.channel
    BY AbsentType
<1> HIDE DEF r
<1>3. /\ conn' \in [Ids -> Entries] /\ conn'[Main] = r
      /\ \A d \in Ids : d # Main => conn'[d] = conn[d]
    BY <1>1, <1>2, Distinct, SetKeeps
<1>4. /\ busy' \in [Ids -> Seq(Nat)] /\ pipe' \in [Ids -> Seq(Nat)]
      /\ \A d \in Ids : d # Main => busy'[d] = busy[d] /\ pipe'[d] = pipe[d]
    BY <1>1, Distinct, EmptySeq, SetPipeKeeps
<1>5. Typed' /\ CallOK' /\ AnswersInStep' /\ Aside(Main)
    BY <1>1, <1>3, <1>4 DEF Typed, CallOK, AnswersInStep, NodeInv, Aside
<1>6. Good(Main)'
    BY <1>1, <1>2, <1>3, Distinct, FreshGood DEF ChannelOpened
<1>7. QED BY <1>1, <1>5, <1>6, Distinct, StepAt

LEMMA ExtendKeeps ==
    ASSUME NodeInv, Extend
    PROVE  NodeInv'
<1>1. /\ Typed /\ client.pc = "idle" /\ SetPipe(Ext, <<>>, <<>>)
      /\ clean' = [clean EXCEPT ![Ext] = TRUE]
      /\ UNCHANGED <<client, sent, async, last>>
    BY DEF NodeInv, Extend, Ready
<1>2. PICK r \in Entries : Set(Ext, r) /\ ~r.opened /\ ~r.ready /\ ~r.extended
  <2> DEFINE known == [Absent EXCEPT !.known = TRUE]
  <2>1. Set(Ext, known) \/ Set(Ext, Spawned(known)) \/ Set(Ext, Absent)
      BY DEF Extend
  <2>2. /\ known \in Entries /\ ~known.opened /\ ~known.ready /\ ~known.extended
        /\ Absent \in Entries /\ ~Absent.opened /\ ~Absent.ready /\ ~Absent.extended
      BY AbsentType
  <2> HIDE DEF known
  <2>3. /\ Spawned(known) \in Entries /\ ~Spawned(known).opened
        /\ ~Spawned(known).ready /\ ~Spawned(known).extended
      BY <2>2, SpawnedType
  <2>4. QED BY <2>1, <2>2, <2>3
<1>3. /\ conn' \in [Ids -> Entries] /\ conn'[Ext] = r
      /\ \A d \in Ids : d # Ext => conn'[d] = conn[d]
    BY <1>1, <1>2, Distinct, SetKeeps
<1>4. /\ busy' \in [Ids -> Seq(Nat)] /\ pipe' \in [Ids -> Seq(Nat)]
      /\ \A d \in Ids : d # Ext => busy'[d] = busy[d] /\ pipe'[d] = pipe[d]
    BY <1>1, Distinct, EmptySeq, SetPipeKeeps
<1>5. /\ clean' \in [Ids -> BOOLEAN]
      /\ \A d \in Ids : d # Ext => clean'[d] = clean[d]
    BY <1>1, Distinct, SetCleanKeeps
<1>6. Typed' /\ CallOK' /\ AnswersInStep' /\ Aside(Ext)
    BY <1>1, <1>3, <1>4, <1>5 DEF Typed, CallOK, AnswersInStep, NodeInv, Aside
<1>7. Good(Ext)'
    BY <1>1, <1>2, <1>3, Distinct, FreshGood DEF ChannelOpened
<1>8. QED BY <1>1, <1>6, <1>7, Distinct, StepAt

----------------------------------------------------------------------------
(* Opening a session.                                                      *)

LEMMA LoginPromptsType ==
    ASSUME NEW k, NEW prompted
    PROVE  /\ LoginPrompts(k, prompted) \in Seq(Nat)
           /\ ~prompted => LoginPrompts(k, prompted) = <<0>>
BY DEF LoginPrompts

(* The lines of open: on a spawned ssh one prompt is due; on a channel     *)
(* that has the session's prompt the wait is not clean.                    *)
LEMMA SendLoginKeeps ==
    ASSUME NodeInv, client.pc = "idle", NEW c \in Ids, NEW r \in Entries, NEW o,
           o \in {"command", "async", "clone"}, o \in {"async", "clone"} => c = Bg,
           NEW b \in Seq(Nat), NEW p \in Seq(Nat), NEW ok \in BOOLEAN,
           SendLogin(c, r, o, b, p, ok), r.channel, c = Ext => r.extended,
           ~r.prompted => b = <<>> /\ p = <<>>,
           c # Bg /\ r.ready => (r.alive => r.opened \/ r.half),
           UNCHANGED <<sent, async, last>>
    PROVE  NodeInv'
<1> DEFINE s == [r EXCEPT !.prompted = TRUE]
           sends == IF r.alive THEN b \o LoginPrompts(kind[c], r.prompted) ELSE b
           fine == ok /\ ~r.prompted
<1>1. /\ Typed /\ Set(c, s) /\ SetPipe(c, sends, p)
      /\ clean' = [clean EXCEPT ![c] = fine]
      /\ client' = [pc |-> "login", id |-> c, op |-> o, cmd |-> 0]
    BY DEF NodeInv, SendLogin
<1>2. /\ s \in Entries /\ s.channel /\ (c = Ext => s.extended) /\ s.prompted
      /\ s.ready = r.ready /\ s.alive = r.alive /\ s.opened = r.opened /\ s.half = r.half
    BY DEF Entries
<1>3. sends \in Seq(Nat) /\ fine \in BOOLEAN
  <2>1. LoginPrompts(kind[c], r.prompted) \in Seq(Nat)
      BY LoginPromptsType
  <2>2. b \o LoginPrompts(kind[c], r.prompted) \in Seq(Nat)
      BY <2>1
  <2>3. r.prompted \in BOOLEAN
      BY DEF Entries
  <2>4. QED BY <2>2, <2>3
<1>4. fine => p = <<>> /\ (sends = <<>> \/ sends = <<0>>)
  <2> SUFFICES ASSUME fine PROVE p = <<>> /\ (sends = <<>> \/ sends = <<0>>)
      OBVIOUS
  <2>1. ~r.prompted /\ b = <<>> /\ p = <<>>
      OBVIOUS
  <2>2. LoginPrompts(kind[c], r.prompted) = <<0>>
      BY <2>1, LoginPromptsType
  <2>3. b \o <<0>> = <<0>>
      BY <2>1
  <2>4. QED BY <2>1, <2>2, <2>3
<1> HIDE DEF s, sends, fine
<1>5. /\ conn' \in [Ids -> Entries] /\ conn'[c] = s
      /\ \A d \in Ids : d # c => conn'[d] = conn[d]
    BY <1>1, <1>2, SetKeeps
<1>6. /\ busy' \in [Ids -> Seq(Nat)] /\ pipe' \in [Ids -> Seq(Nat)]
      /\ busy'[c] = sends /\ pipe'[c] = p
      /\ \A d \in Ids : d # c => busy'[d] = busy[d] /\ pipe'[d] = pipe[d]
    BY <1>1, <1>3, SetPipeKeeps
<1>7. /\ clean' \in [Ids -> BOOLEAN] /\ clean'[c] = fine
      /\ \A d \in Ids : d # c => clean'[d] = clean[d]
    BY <1>1, <1>3, SetCleanKeeps
<1>8. client' \in Calls /\ client'.pc = "login" /\ client'.id = c /\ client'.op = o
    BY <1>1 DEF Calls, Opening
<1>9. Typed' /\ CallOK' /\ AnswersInStep' /\ Aside(c)
    BY <1>1, <1>5, <1>6, <1>7, <1>8 DEF Typed, CallOK, AnswersInStep, NodeInv, Aside
<1>10. Good(c)'
  <2>1. LoggingIn(c)' /\ Due(c)' = {0}
      BY <1>8 DEF LoggingIn, At, Due, Opening
  <2>2. ChannelOpened(c)'
      BY <1>2, <1>5 DEF ChannelOpened
  <2>3. InStep(c)'
      BY <1>4, <1>6, <1>7, <2>1 DEF InStep, Empty, Holds
  <2>4. Prompted(c)' /\ Kept(c)'
      BY <1>2, <1>5, <2>2 DEF Prompted, Kept
  <2>5. QED BY <2>3, <2>4 DEF Good
<1>11. QED BY <1>8, <1>9, <1>10, StepAt

(* A call that ends before it did anything. *)
LEMMA NothingDone ==
    ASSUME NodeInv, client.pc = "idle", client'.pc = "idle", client' \in Calls,
           UNCHANGED <<conn, busy, pipe, clean, sent, async, last>>
    PROVE  NodeInv'
<1>1. Typed' /\ CallOK' /\ AnswersInStep' /\ Aside(Main)
    BY DEF Typed, CallOK, AnswersInStep, NodeInv, Aside, Opening
<1>2. Good(Main)'
  <2>1. /\ LoggingIn(Main)' = FALSE /\ LoggingIn(Main) = FALSE
        /\ Due(Main)' = Due(Main)
      BY DEF LoggingIn, At, Due
  <2>2. Good(Main)
      BY Distinct DEF NodeInv
  <2>3. ChannelOpened(Main)' <=> ChannelOpened(Main)
      BY DEF ChannelOpened
  <2>4. InStep(Main)'
      BY <2>1, <2>2 DEF Good, InStep, Empty, Holds
  <2>5. QED BY <2>1, <2>2, <2>3, <2>4 DEF Good, Prompted, Kept
<1>3. QED BY <1>1, <1>2, Distinct, StepAt

LEMMA StartOpenKeeps ==
    ASSUME NodeInv, client.pc = "idle", NEW c \in Ids, ~conn[c].opened,
           NEW o \in {"command", "async"}, o = "async" => c = Bg,
           StartOpen(c, o), UNCHANGED <<sent, async, last>>
    PROVE  NodeInv'
<1>1. /\ Typed /\ conn[c] \in Entries /\ busy[c] \in Seq(Nat) /\ pipe[c] \in Seq(Nat)
      /\ clean[c] \in BOOLEAN /\ Prompted(c) /\ Kept(c)
    BY DEF NodeInv, Typed, Good
<1>2. CASE ChannelOpened(c)
  <2>1. CASE SendLogin(c, conn[c], o, busy[c], pipe[c], clean[c])
    <3>1. /\ conn[c].channel /\ (c = Ext => conn[c].extended) /\ conn[c].prompted
          /\ c # Bg /\ conn[c].ready => (conn[c].alive => conn[c].opened \/ conn[c].half)
        BY <1>1, <1>2 DEF ChannelOpened, Prompted, Kept
    <3>2. QED BY <1>1, <2>1, <3>1, SendLoginKeeps
  <2>2. CASE WriteRaises(c)
      BY <2>2, IdleType, NothingDone DEF WriteRaises
  <2>3. QED BY <1>2, <2>1, <2>2 DEF StartOpen
<1>3. CASE ~ChannelOpened(c)
  <2> DEFINE r == [Spawned(conn[c]) EXCEPT !.autoclose = TRUE, !.extended = (c = Ext)]
  <2>1. c # Bg => ~conn[c].ready
      BY <1>1, <1>3 DEF Kept
  <2>2. CASE SendLogin(c, r, o, <<>>, <<>>, TRUE)
    <3>1. /\ Spawned(conn[c]) \in Entries /\ Spawned(conn[c]).channel
          /\ Spawned(conn[c]).ready = conn[c].ready
        BY <1>1, SpawnedType
    <3>2. /\ r \in Entries /\ r.channel /\ (c = Ext => r.extended)
          /\ r.ready = conn[c].ready
        BY <3>1 DEF Entries
    <3> HIDE DEF r
    <3>3. QED BY <2>1, <2>2, <3>2, EmptySeq, SendLoginKeeps
  <2>3. CASE /\ Set(c, Closed(conn[c])) /\ SetPipe(c, <<>>, <<>>)
             /\ client' = Idle /\ UNCHANGED clean
    <3> DEFINE z == Closed(conn[c])
    <3>1. z \in Entries /\ ~z.channel /\ ~z.opened /\ z.ready = conn[c].ready
        BY <1>1, ClosedType
    <3> HIDE DEF z
    <3>2. /\ conn' \in [Ids -> Entries] /\ conn'[c] = z
          /\ \A d \in Ids : d # c => conn'[d] = conn[d]
        BY <1>1, <2>3, <3>1, SetKeeps DEF z
    <3>3. /\ busy' \in [Ids -> Seq(Nat)] /\ pipe' \in [Ids -> Seq(Nat)]
          /\ \A d \in Ids : d # c => busy'[d] = busy[d] /\ pipe'[d] = pipe[d]
        BY <1>1, <2>3, EmptySeq, SetPipeKeeps
    <3>4. Typed' /\ CallOK' /\ AnswersInStep' /\ Aside(c)
        BY <1>1, <2>3, <3>2, <3>3, IdleType
           DEF Typed, CallOK, AnswersInStep, NodeInv, Aside, Opening
    <3>5. Good(c)'
        BY <2>1, <2>3, <3>1, <3>2, IdleType
           DEF Good, InStep, Prompted, Kept, LoggingIn, At, ChannelOpened
    <3>6. QED BY <2>3, <3>4, <3>5, IdleType, StepAt
  <2>4. QED BY <1>3, <2>2, <2>3 DEF StartOpen
<1>4. QED BY <1>2, <1>3

(* A command on an open session: nothing was due on it before. *)
LEMMA SendKeeps ==
    ASSUME NodeInv, NEW c \in Ids, conn[c].opened,
           \/ client.pc = "idle" /\ (c = Bg => async = 0)
           \/ At(c) /\ client.pc = "opened",
           NEW o \in {"none", "command", "async", "clone", "stop"}, o = "async" => c = Bg,
           Send(c, o), UNCHANGED last
    PROVE  NodeInv'
<1>1. /\ Typed /\ conn[c] \in Entries /\ busy[c] \in Seq(Nat) /\ pipe[c] \in Seq(Nat)
      /\ Good(c) /\ sent \in Nat
    BY DEF NodeInv, Typed
<1>2. clean[c] => Empty(c)
  <2>1. Due(c) = {}
      BY DEF At, Due
  <2>2. QED BY <1>1, <2>1 DEF Good, InStep
<1>3. client.pc = "idle" \/ client.id = c
    BY DEF At
<1>4. CASE conn[c].ready
  <2> DEFINE b == IF conn[c].alive THEN Append(busy[c], sent + 1) ELSE busy[c]
  <2>1. /\ sent' = sent + 1 /\ SetPipe(c, b, pipe[c]) /\ UNCHANGED <<conn, clean>>
      BY <1>4 DEF Send
  <2>2. b \in Seq(Nat) /\ (busy[c] = <<>> => b = <<>> \/ b = <<sent + 1>>)
      BY <1>1, AppendOne
  <2> HIDE DEF b
  <2>3. /\ busy' \in [Ids -> Seq(Nat)] /\ pipe' \in [Ids -> Seq(Nat)]
        /\ busy'[c] = b /\ pipe'[c] = pipe[c]
        /\ \A d \in Ids : d # c => busy'[d] = busy[d] /\ pipe'[d] = pipe[d]
      BY <1>1, <2>1, <2>2, SetPipeKeeps
  <2>4. \/ o = "async" /\ client' = Idle /\ async' = sent + 1
        \/ /\ client' = [pc |-> "answer", id |-> c, op |-> o, cmd |-> sent + 1]
           /\ async' = async
      BY <1>4 DEF Send
  <2>5. /\ client' \in Calls /\ (client'.pc # "idle" => client'.id = c)
        /\ client'.pc \in {"idle", "answer"} /\ async' \in Nat
        /\ c # Bg => async' = async
        /\ Due(c)' = {sent + 1}
    <3>1. CASE o = "async" /\ client' = Idle /\ async' = sent + 1
        BY <1>1, <3>1, IdleType DEF Due, At
    <3>2. CASE /\ client' = [pc |-> "answer", id |-> c, op |-> o, cmd |-> sent + 1]
               /\ async' = async
      <4>1. async \in Nat /\ sent + 1 \in Nat
          BY <1>1 DEF Typed
      <4>2. /\ client' \in Calls /\ client'.pc = "answer" /\ client'.id = c
            /\ client'.cmd = sent + 1
          BY <3>2, <4>1 DEF Calls
      <4>3. QED BY <3>2, <4>1, <4>2 DEF Due, At
    <3>3. QED BY <2>4, <3>1, <3>2
  <2>6. Typed' /\ CallOK' /\ AnswersInStep' /\ Aside(c)
    <3>1. Typed'
        BY <1>1, <2>1, <2>3, <2>5 DEF Typed
    <3>2. QED BY <2>1, <2>3, <2>5, <3>1 DEF CallOK, AnswersInStep, NodeInv, Aside, Opening
  <2>7. Good(c)'
    <3>1. InStep(c)'
        BY <1>2, <2>1, <2>2, <2>3, <2>5 DEF InStep, Empty, Holds
    <3>2. ~LoggingIn(c)'
        BY <2>5 DEF LoggingIn, Opening
    <3>3. QED BY <1>1, <2>1, <3>1, <3>2 DEF Good, Prompted, Kept, ChannelOpened
  <2>8. QED BY <1>3, <2>5, <2>6, <2>7, StepAt
<1>5. CASE ~conn[c].ready
  <2>1. client' = Idle /\ UNCHANGED <<conn, busy, pipe, clean, sent, async>>
      BY <1>5 DEF Send
  <2>2. Typed' /\ CallOK' /\ AnswersInStep' /\ Aside(c)
      BY <2>1, IdleType DEF Typed, CallOK, AnswersInStep, NodeInv, Aside, Opening
  <2>3. Good(c)'
    <3>1. InStep(c)'
        BY <1>2, <2>1 DEF InStep, Empty
    <3>2. QED BY <1>1, <2>1, <3>1, IdleType
              DEF Good, Prompted, Kept, ChannelOpened, LoggingIn, At
  <2>4. QED BY <1>3, <2>1, <2>2, <2>3, IdleType, StepAt
<1>6. QED BY <1>4, <1>5

LEMMA UseKeeps ==
    ASSUME NodeInv, NEW c \in Ids, NEW o \in {"command", "async"}, Use(c, o)
    PROVE  NodeInv'
<1>1. /\ client.pc = "idle" /\ (o = "async" => c = Bg) /\ (c = Bg => async = 0)
      /\ last' = last
    BY DEF Use, Ready
<1>2. CASE conn[c].opened /\ Send(c, o)
    BY <1>1, <1>2, SendKeeps
<1>3. CASE WriteRaises(c) /\ UNCHANGED <<sent, async, faults>>
    BY <1>1, <1>3, IdleType, NothingDone DEF WriteRaises
<1>4. CASE ~conn[c].opened /\ StartOpen(c, o) /\ UNCHANGED <<sent, async>>
    BY <1>1, <1>4, StartOpenKeeps
<1>5. QED BY <1>2, <1>3, <1>4 DEF Use

LEMMA CloneAsyncKeeps ==
    ASSUME NodeInv, CloneAsync
    PROVE  NodeInv'
<1> DEFINE r == [Absent EXCEPT !.known = TRUE]
           n == Spawned([r EXCEPT !.known = FALSE])
<1>1. Typed /\ client.pc = "idle" /\ UNCHANGED <<sent, async, last>>
    BY DEF NodeInv, CloneAsync, Ready
<1>2. /\ r \in Entries /\ ~r.opened /\ ~r.ready /\ ~r.channel
    BY AbsentType
<1>3. \/ SendLogin(Bg, n, "clone", <<>>, <<>>, TRUE)
      \/ client' = Idle /\ UNCHANGED <<conn, busy, pipe, clean>>
      \/ /\ Set(Bg, r) /\ SetPipe(Bg, <<>>, <<>>)
         /\ clean' = [clean EXCEPT ![Bg] = TRUE] /\ UNCHANGED client
    BY DEF CloneAsync
<1>4. CASE SendLogin(Bg, n, "clone", <<>>, <<>>, TRUE)
  <2>1. [r EXCEPT !.known = FALSE] \in Entries
      BY <1>2 DEF Entries
  <2>2. n \in Entries /\ n.channel
      BY <2>1, SpawnedType
  <2> HIDE DEF n
  <2>3. QED BY <1>1, <1>4, <2>2, Distinct, EmptySeq, SendLoginKeeps
<1>5. CASE client' = Idle /\ UNCHANGED <<conn, busy, pipe, clean>>
    BY <1>1, <1>5, IdleType, NothingDone
<1>6. CASE /\ Set(Bg, r) /\ SetPipe(Bg, <<>>, <<>>)
           /\ clean' = [clean EXCEPT ![Bg] = TRUE] /\ UNCHANGED client
  <2> HIDE DEF r
  <2>1. /\ conn' \in [Ids -> Entries] /\ conn'[Bg] = r
        /\ \A d \in Ids : d # Bg => conn'[d] = conn[d]
      BY <1>1, <1>2, <1>6, Distinct, SetKeeps
  <2>2. /\ busy' \in [Ids -> Seq(Nat)] /\ pipe' \in [Ids -> Seq(Nat)]
        /\ \A d \in Ids : d # Bg => busy'[d] = busy[d] /\ pipe'[d] = pipe[d]
      BY <1>1, <1>6, Distinct, EmptySeq, SetPipeKeeps
  <2>3. /\ clean' \in [Ids -> BOOLEAN]
        /\ \A d \in Ids : d # Bg => clean'[d] = clean[d]
      BY <1>1, <1>6, Distinct, SetCleanKeeps
  <2>4. Typed' /\ CallOK' /\ AnswersInStep' /\ Aside(Bg)
      BY <1>1, <1>6, <2>1, <2>2, <2>3 DEF Typed, CallOK, AnswersInStep, NodeInv, Aside
  <2>5. Good(Bg)'
      BY <1>1, <1>2, <1>6, <2>1, Distinct, FreshGood DEF ChannelOpened
  <2>6. QED BY <1>1, <1>6, <2>4, <2>5, Distinct, StepAt
<1>7. QED BY <1>3, <1>4, <1>5, <1>6

(* open has succeeded. *)
LEMMA OpenedIs ==
    ASSUME Typed, CallOK, NEW c \in Ids, c = client.id, client.pc \in Opening, Opened(c)
    PROVE  \E r \in Entries :
              /\ Set(c, r) /\ client' \in Calls /\ (client'.pc # "idle" => client'.id = c)
              /\ r.channel = conn[c].channel /\ r.extended = conn[c].extended
              /\ r.prompted = conn[c].prompted /\ r.alive = conn[c].alive
              /\ \/ client'.pc = "idle" /\ c = Bg /\ r.opened = conn[c].opened
                 \/ client'.pc = "opened" /\ client'.op = client.op /\ r.opened
<1>1. conn[c] \in Entries /\ client \in Calls
    BY DEF Typed
<1>2. CASE client.op = "clone"
  <2> DEFINE r == [conn[c] EXCEPT !.ready = TRUE, !.half = FALSE, !.known = TRUE]
  <2>1. Set(c, r) /\ client' = Idle
      BY <1>2 DEF Opened
  <2>2. /\ r \in Entries /\ r.channel = conn[c].channel /\ r.extended = conn[c].extended
        /\ r.prompted = conn[c].prompted /\ r.alive = conn[c].alive
        /\ r.opened = conn[c].opened
      BY <1>1 DEF Entries
  <2>3. c = Bg
      BY <1>2 DEF CallOK
  <2> HIDE DEF r
  <2>4. QED BY <2>1, <2>2, <2>3, IdleType
<1>3. CASE client.op # "clone"
  <2> DEFINE r == [conn[c] EXCEPT !.ready = TRUE, !.half = FALSE, !.opened = TRUE]
  <2>1. Set(c, r) /\ client' = [client EXCEPT !.pc = "opened"]
      BY <1>3 DEF Opened
  <2>2. /\ r \in Entries /\ r.channel = conn[c].channel /\ r.extended = conn[c].extended
        /\ r.prompted = conn[c].prompted /\ r.alive = conn[c].alive /\ r.opened
      BY <1>1 DEF Entries
  <2>3. /\ client' \in Calls /\ client'.pc = "opened" /\ client'.id = c
        /\ client'.op = client.op
      BY <1>1, <2>1 DEF Calls
  <2> HIDE DEF r
  <2>4. QED BY <2>1, <2>2, <2>3
<1>4. QED BY <1>2, <1>3

(* The prompt of an open has been read. *)
LEMMA PromptTaken ==
    ASSUME NodeInv, NEW c \in Ids, c = client.id, client.pc \in {"login", "second"},
           pipe[c] # <<>>, SetPipe(c, busy[c], Tail(pipe[c])),
           UNCHANGED <<sent, async, clean, last>>,
           NEW r \in Entries, Set(c, r), client' \in Calls,
           client'.pc # "idle" => client'.id = c,
           r.channel = conn[c].channel /\ r.extended = conn[c].extended
               /\ r.prompted = conn[c].prompted,
           \/ client'.pc = "idle" /\ c = Bg
           \/ client'.pc = "opened" /\ client'.op = client.op /\ r.opened
           \/ client'.pc = "setup" /\ client'.op = client.op /\ r.half
    PROVE  NodeInv'
<1>1. /\ Typed /\ CallOK /\ client \in Calls
      /\ client.pc \in Opening /\ client.pc # "idle" /\ client.pc # "answer"
    BY DEF NodeInv, Typed, Opening
<1>3. pipe[c] # <<>> /\ SetPipe(c, busy[c], Tail(pipe[c]))
    OBVIOUS
<1>4. /\ conn[c] \in Entries /\ busy[c] \in Seq(Nat) /\ pipe[c] \in Seq(Nat) /\ Good(c)
      /\ Tail(pipe[c]) \in Seq(Nat) /\ LoggingIn(c) /\ Due(c) = {0}
  <2>1. conn[c] \in Entries /\ busy[c] \in Seq(Nat) /\ pipe[c] \in Seq(Nat) /\ Good(c)
      BY <1>1 DEF NodeInv, Typed
  <2>2. Tail(pipe[c]) \in Seq(Nat)
      BY <1>3, <2>1
  <2>3. LoggingIn(c) /\ Due(c) = {0}
      BY <1>1 DEF LoggingIn, At, Due
  <2>4. QED BY <2>1, <2>2, <2>3
<1>6. /\ conn' \in [Ids -> Entries] /\ conn'[c] = r
      /\ \A d \in Ids : d # c => conn'[d] = conn[d]
    BY <1>1, SetKeeps
<1>7. /\ busy' \in [Ids -> Seq(Nat)] /\ pipe' \in [Ids -> Seq(Nat)]
      /\ busy'[c] = busy[c] /\ pipe'[c] = Tail(pipe[c])
      /\ \A d \in Ids : d # c => busy'[d] = busy[d] /\ pipe'[d] = pipe[d]
    BY <1>1, <1>4, <1>3, SetPipeKeeps
<1>8. clean[c] => Empty(c)'
  <2>1. clean[c] => pipe[c] = <<0>> /\ busy[c] = <<>>
      BY <1>4, <1>3 DEF Good, InStep, Empty, Holds
  <2>2. Tail(<<0>>) = <<>>
      OBVIOUS
  <2>3. (pipe[c] = <<0>> => pipe'[c] = <<>>) /\ busy'[c] = busy[c]
      BY <1>7, <2>2
  <2>4. ASSUME clean[c] PROVE pipe'[c] = <<>> /\ busy'[c] = <<>>
      BY <2>1, <2>3, <2>4
  <2>5. QED BY <2>4 DEF Empty
<1>9. Typed' /\ CallOK' /\ AnswersInStep' /\ Aside(c)
  <2>1. Typed'
      BY <1>1, <1>6, <1>7 DEF Typed
  <2>2. CallOK'
      BY <1>1, <1>6 DEF CallOK, Opening
  <2>3. QED BY <1>1, <1>6, <1>7, <2>1, <2>2 DEF AnswersInStep, NodeInv, Aside
<1>10. Good(c)'
  <2>1. InStep(c)'
      BY <1>1, <1>8 DEF InStep
  <2>2. ChannelOpened(c)' <=> ChannelOpened(c)
      BY <1>6 DEF ChannelOpened
  <2>3. ChannelOpened(c)' /\ Prompted(c)'
      BY <1>4, <1>6, <2>2 DEF Good, Prompted
  <2>4. Kept(c)'
      BY <1>6, <2>3 DEF Kept
  <2>5. QED BY <2>1, <2>3, <2>4 DEF Good
<1>11. QED BY <1>1, <1>9, <1>10, StepAt

(* The lines of the second part of an open have been sent. *)
LEMMA SecondBegins ==
    ASSUME NodeInv, NEW c \in Ids, c = client.id, client.pc \in {"login", "setup"},
           UNCHANGED <<conn, sent, async, clean, last>>,
           NEW b \in Seq(Nat), NEW p \in Seq(Nat), SetPipe(c, b, p),
           client' = [client EXCEPT !.pc = "second"],
           clean[c] => p = <<>> /\ (b = <<>> \/ b = << 0 >>)
    PROVE  NodeInv'
<1>1. Typed /\ CallOK /\ AnswersInStep /\ client \in Calls /\ Good(c) /\ LoggingIn(c)
    BY DEF NodeInv, Typed, LoggingIn, At, Opening
<1>2. client' \in Calls /\ client'.pc = "second" /\ client'.id = c /\ client'.op = client.op
    BY <1>1 DEF Calls, Opening
<1>3. /\ busy' \in [Ids -> Seq(Nat)] /\ pipe' \in [Ids -> Seq(Nat)]
      /\ busy'[c] = b /\ pipe'[c] = p
      /\ \A d \in Ids : d # c => busy'[d] = busy[d] /\ pipe'[d] = pipe[d]
    BY <1>1, SetPipeKeeps
<1>4. Typed' /\ CallOK' /\ AnswersInStep' /\ Aside(c)
    BY <1>1, <1>2, <1>3 DEF Typed, CallOK, AnswersInStep, Aside, Opening
<1>5. Due(c)' = {0} /\ LoggingIn(c)'
    BY <1>2 DEF Due, LoggingIn, At, Opening
<1>6. InStep(c)'
  <2>1. clean[c] => Empty(c)' \/ Holds(c, 0)'
      BY <1>3 DEF Empty, Holds
  <2>2. QED BY <1>5, <2>1 DEF InStep
<1>7. Prompted(c)' /\ Kept(c)'
    BY <1>1, <1>5 DEF Good, Prompted, Kept, ChannelOpened
<1>8. QED BY <1>2, <1>4, <1>6, <1>7, StepAt DEF Good

LEMMA LoginSyncedKeeps ==
    ASSUME NodeInv, LoginSynced
    PROVE  NodeInv'
<1>1. /\ Typed /\ CallOK /\ client.pc = "login" /\ client \in Calls
      /\ UNCHANGED <<sent, async, clean, last>>
    BY DEF NodeInv, Typed, LoginSynced
<1>2. PICK c \in Ids : c = client.id
    BY <1>1 DEF Typed
<1>3. /\ pipe[c] # <<>> /\ conn[c] \in Entries /\ busy[c] \in Seq(Nat)
      /\ pipe[c] \in Seq(Nat) /\ Tail(pipe[c]) \in Seq(Nat) /\ Good(c)
  <2>1. /\ pipe[c] # <<>> /\ conn[c] \in Entries /\ busy[c] \in Seq(Nat)
        /\ pipe[c] \in Seq(Nat) /\ Good(c)
      BY <1>1, <1>2 DEF LoginSynced, Typed, NodeInv
  <2>2. QED BY <2>1
<1>4. CASE TakePrompt(c) /\ Opened(c)
  <2>1. SetPipe(c, busy[c], Tail(pipe[c]))
      BY <1>4 DEF TakePrompt
  <2>2. PICK r \in Entries :
              /\ Set(c, r) /\ client' \in Calls /\ (client'.pc # "idle" => client'.id = c)
              /\ r.channel = conn[c].channel /\ r.extended = conn[c].extended
              /\ r.prompted = conn[c].prompted /\ r.alive = conn[c].alive
              /\ \/ client'.pc = "idle" /\ c = Bg /\ r.opened = conn[c].opened
                 \/ client'.pc = "opened" /\ client'.op = client.op /\ r.opened
      BY <1>1, <1>2, <1>4, OpenedIs DEF Opening
  <2>3. QED BY <1>1, <1>2, <1>3, <2>1, <2>2, PromptTaken
<1>5. CASE /\ TakePrompt(c) /\ Set(c, [conn[c] EXCEPT !.ready = TRUE, !.half = TRUE])
           /\ client' = [client EXCEPT !.pc = "setup"]
  <2> DEFINE r == [conn[c] EXCEPT !.ready = TRUE, !.half = TRUE]
  <2>1. SetPipe(c, busy[c], Tail(pipe[c])) /\ Set(c, r)
      BY <1>5 DEF TakePrompt
  <2>2. /\ r \in Entries /\ r.channel = conn[c].channel /\ r.extended = conn[c].extended
        /\ r.prompted = conn[c].prompted /\ r.half
      BY <1>3 DEF Entries
  <2>3. client' \in Calls /\ client'.pc = "setup" /\ client'.id = c /\ client'.op = client.op
      BY <1>1, <1>2, <1>5 DEF Calls, Opening
  <2> HIDE DEF r
  <2>4. QED BY <1>1, <1>2, <1>3, <2>1, <2>2, <2>3, PromptTaken
<1>6. CASE /\ SetPipe(c, IF conn[c].alive THEN Append(busy[c], 0) ELSE busy[c], Tail(pipe[c]))
           /\ client' = [client EXCEPT !.pc = "second"] /\ UNCHANGED conn
  <2> DEFINE b == IF conn[c].alive THEN Append(busy[c], 0) ELSE busy[c]
             p == Tail(pipe[c])
  <2>1. b \in Seq(Nat) /\ (busy[c] = <<>> => b = <<>> \/ b = <<0>>)
      BY <1>3, AppendOne
  <2>2. Tail(<<0>>) = <<>>
      OBVIOUS
  <2>3. clean[c] => pipe[c] = <<0>> /\ busy[c] = <<>>
    <3>1. LoggingIn(c) /\ Due(c) = {0}
        BY <1>1, <1>2 DEF LoggingIn, At, Due, Opening
    <3>2. QED BY <1>3, <3>1 DEF Good, InStep, Empty, Holds
  <2>4. p \in Seq(Nat) /\ (clean[c] => p = <<>>)
      BY <1>3, <2>2, <2>3
  <2>5. SetPipe(c, b, p)
      BY <1>6
  <2> HIDE DEF b, p
  <2>6. QED BY <1>1, <1>2, <1>6, <2>1, <2>3, <2>4, <2>5, SecondBegins
<1>7. QED BY <1>2, <1>4, <1>5, <1>6 DEF LoginSynced

LEMMA SecondKeeps ==
    ASSUME NodeInv, EprtSetupRuns \/ SecondSynced
    PROVE  NodeInv'
<1>1. /\ Typed /\ CallOK /\ client.pc \in {"setup", "second"} /\ client \in Calls
      /\ UNCHANGED <<sent, async, clean, last>>
    BY DEF NodeInv, Typed, EprtSetupRuns, SecondSynced
<1>2. PICK c \in Ids : c = client.id
    BY <1>1 DEF Typed
<1>3. CASE EprtSetupRuns
  <2>1. <<0>> \in Seq(Nat) /\ <<>> \in Seq(Nat)
      OBVIOUS
  <2>2. /\ client.pc = "setup" /\ UNCHANGED conn /\ SetPipe(c, <<0>>, <<>>)
        /\ client' = [client EXCEPT !.pc = "second"]
      BY <1>2, <1>3 DEF EprtSetupRuns
  <2>3. QED BY <1>1, <1>2, <2>1, <2>2, SecondBegins
<1>4. CASE SecondSynced
  <2>1. /\ client.pc = "second" /\ pipe[c] # <<>> /\ Opened(c)
        /\ SetPipe(c, busy[c], Tail(pipe[c]))
      BY <1>2, <1>4 DEF SecondSynced, TakePrompt
  <2>2. PICK r \in Entries :
              /\ Set(c, r) /\ client' \in Calls /\ (client'.pc # "idle" => client'.id = c)
              /\ r.channel = conn[c].channel /\ r.extended = conn[c].extended
              /\ r.prompted = conn[c].prompted /\ r.alive = conn[c].alive
              /\ \/ client'.pc = "idle" /\ c = Bg /\ r.opened = conn[c].opened
                 \/ client'.pc = "opened" /\ client'.op = client.op /\ r.opened
      BY <1>1, <1>2, <2>1, OpenedIs DEF Opening
  <2>3. QED BY <1>1, <1>2, <2>1, <2>2, PromptTaken
<1>5. QED BY <1>3, <1>4

LEMMA SendAfterOpenKeeps ==
    ASSUME NodeInv, SendAfterOpen
    PROVE  NodeInv'
<1>1. /\ Typed /\ CallOK /\ client.pc = "opened" /\ client \in Calls
      /\ UNCHANGED last
    BY DEF NodeInv, Typed, SendAfterOpen
<1>2. PICK c \in Ids : c = client.id
    BY <1>1 DEF Typed
<1>3. PICK o \in {"none", "command", "async", "clone", "stop"} : o = client.op
    BY <1>1 DEF Calls
<1>4. Send(c, o) /\ conn[c].opened /\ At(c) /\ (o = "async" => c = Bg)
    BY <1>1, <1>2, <1>3 DEF SendAfterOpen, CallOK, At
<1>5. QED BY <1>1, <1>4, SendKeeps

(* A wait that ends without a prompt: the session stays clean only if no   *)
(* prompt can come any more.                                               *)
LEMMA MissedKeeps ==
    ASSUME NodeInv, NEW c \in Ids, At(c), Missed(c), clean[c] => pipe[c] = <<>>,
           UNCHANGED <<busy, pipe, sent, async, last>>,
           NEW r \in Entries, Set(c, r), client' \in Calls,
           r.channel = conn[c].channel /\ r.extended = conn[c].extended
               /\ r.prompted = conn[c].prompted /\ r.alive = conn[c].alive,
           \/ r.ready = conn[c].ready /\ r.half = conn[c].half
           \/ c = Bg \/ (r.opened /\ LoggingIn(c)),
           \/ client'.pc = "idle" /\ r.opened = conn[c].opened
           \/ /\ client'.pc = "opened" /\ client'.id = c
              /\ client'.op \notin {"async", "clone"} \/ c = Bg
              /\ r.opened
    PROVE  NodeInv'
<1>1. /\ Typed /\ busy[c] \in Seq(Nat) /\ Good(c)
      /\ clean[c] \in BOOLEAN
    BY DEF NodeInv, Typed
<1>2. /\ conn' \in [Ids -> Entries] /\ conn'[c] = r
      /\ \A d \in Ids : d # c => conn'[d] = conn[d]
    BY <1>1, SetKeeps
<1>3. /\ clean' \in [Ids -> BOOLEAN] /\ clean'[c] = (clean[c] /\ busy[c] = <<>>)
      /\ \A d \in Ids : d # c => clean'[d] = clean[d]
  <2> DEFINE ok == clean[c] /\ busy[c] = <<>>
  <2>1. clean' = [clean EXCEPT ![c] = ok] /\ ok \in BOOLEAN
      BY <1>1 DEF Missed
  <2> HIDE DEF ok
  <2>2. /\ clean' \in [Ids -> BOOLEAN] /\ clean'[c] = ok
        /\ \A d \in Ids : d # c => clean'[d] = clean[d]
      BY <1>1, <2>1, SetCleanKeeps
  <2>3. QED BY <2>2 DEF ok
<1>4. Typed' /\ CallOK' /\ AnswersInStep' /\ Aside(c)
  <2>1. Typed'
      BY <1>1, <1>2, <1>3 DEF Typed
  <2>2. CallOK'
      BY <1>2 DEF CallOK, Opening
  <2>3. QED BY <1>2, <1>3, <2>1, <2>2 DEF AnswersInStep, NodeInv, Aside
<1>5. Good(c)'
  <2>1. InStep(c)'
      BY <1>3 DEF InStep, Empty
  <2>2. ChannelOpened(c)' <=> ChannelOpened(c)
      BY <1>2 DEF ChannelOpened
  <2>3. ~LoggingIn(c)'
      BY DEF LoggingIn, Opening
  <2>4. QED BY <1>1, <1>2, <2>1, <2>2, <2>3 DEF Good, Prompted, Kept
<1>6. QED BY <1>4, <1>5, StepAt DEF At

LEMMA LoginFailsKeeps ==
    ASSUME NodeInv, LoginFails
    PROVE  NodeInv'
<1>1. /\ Typed /\ CallOK /\ client.pc = "login" /\ client \in Calls
      /\ UNCHANGED <<busy, pipe, sent, async, last>>
    BY DEF NodeInv, Typed, LoginFails
<1>2. PICK c \in Ids : c = client.id
    BY <1>1 DEF Typed
<1>3. pipe[c] = <<>> /\ Missed(c) /\ At(c) /\ conn[c] \in Entries
    BY <1>1, <1>2 DEF LoginFails, At, Typed
<1>4. CASE /\ client.op # "clone" /\ Set(c, [conn[c] EXCEPT !.opened = TRUE])
           /\ client' = [client EXCEPT !.pc = "opened"]
  <2> DEFINE r == [conn[c] EXCEPT !.opened = TRUE]
  <2>1. Set(c, r) /\ client' = [client EXCEPT !.pc = "opened"]
      BY <1>4
  <2>2. /\ r \in Entries /\ r.channel = conn[c].channel /\ r.extended = conn[c].extended
        /\ r.prompted = conn[c].prompted /\ r.alive = conn[c].alive
        /\ r.ready = conn[c].ready /\ r.half = conn[c].half /\ r.opened
      BY <1>3 DEF Entries
  <2>3. /\ client' \in Calls /\ client'.pc = "opened" /\ client'.id = c
        /\ client'.op = client.op
      BY <1>1, <1>2, <2>1 DEF Calls
  <2>4. client.op \in {"async", "clone"} => c = Bg
      BY <1>1, <1>2 DEF CallOK, Opening
  <2> HIDE DEF r
  <2>5. QED BY <1>1, <1>3, <2>1, <2>2, <2>3, <2>4, MissedKeeps
<1>5. CASE client' = Idle /\ UNCHANGED conn
  <2>1. Set(c, conn[c])
      BY <1>1, <1>5 DEF Set, Typed
  <2>2. QED BY <1>1, <1>3, <1>5, <2>1, IdleType, MissedKeeps
<1>6. QED BY <1>2, <1>4, <1>5 DEF LoginFails

LEMMA SecondFailsKeeps ==
    ASSUME NodeInv, SecondFails
    PROVE  NodeInv'
<1>1. /\ Typed /\ CallOK /\ client.pc \in {"setup", "second"} /\ client \in Calls
      /\ UNCHANGED <<busy, pipe, sent, async, last>>
    BY DEF NodeInv, Typed, SecondFails
<1>2. PICK c \in Ids : c = client.id
    BY <1>1 DEF Typed
<1>3. /\ Missed(c) /\ At(c) /\ LoggingIn(c) /\ conn[c] \in Entries /\ Good(c)
      /\ client.pc = "second" => pipe[c] = <<>>
    BY <1>1, <1>2 DEF SecondFails, At, LoggingIn, Opening, Typed, NodeInv
<1>4. clean[c] => pipe[c] = <<>>
  <2>1. client.pc = "setup" => Due(c) = {}
      BY <1>3 DEF Due
  <2>2. QED BY <1>1, <1>3, <2>1 DEF Good, InStep, Empty
<1>5. CASE Opened(c)
  <2>1. PICK r \in Entries :
              /\ Set(c, r) /\ client' \in Calls /\ (client'.pc # "idle" => client'.id = c)
              /\ r.channel = conn[c].channel /\ r.extended = conn[c].extended
              /\ r.prompted = conn[c].prompted /\ r.alive = conn[c].alive
              /\ \/ client'.pc = "idle" /\ c = Bg /\ r.opened = conn[c].opened
                 \/ client'.pc = "opened" /\ client'.op = client.op /\ r.opened
      BY <1>1, <1>2, <1>5, OpenedIs DEF Opening
  <2>2. client.op \in {"async", "clone"} => c = Bg
      BY <1>1, <1>2 DEF CallOK, Opening
  <2>3. QED BY <1>1, <1>3, <1>4, <2>1, <2>2, MissedKeeps
<1>6. CASE client' = Idle /\ UNCHANGED conn
  <2>1. Set(c, conn[c])
      BY <1>1, <1>6 DEF Set, Typed
  <2>2. QED BY <1>1, <1>3, <1>4, <1>6, <2>1, IdleType, MissedKeeps
<1>7. QED BY <1>2, <1>5, <1>6 DEF SecondFails

LEMMA AnswerFailsKeeps ==
    ASSUME NodeInv, AnswerFails
    PROVE  NodeInv'
<1>1. /\ Typed /\ client.pc = "answer" /\ client' = Idle
      /\ UNCHANGED <<conn, busy, pipe, sent, async, last>>
    BY DEF NodeInv, AnswerFails
<1>2. PICK c \in Ids : c = client.id
    BY <1>1 DEF Typed
<1>3. pipe[c] = <<>> /\ Missed(c) /\ At(c) /\ conn[c] \in Entries
    BY <1>1, <1>2 DEF AnswerFails, At, Typed
<1>4. Set(c, conn[c])
    BY <1>1 DEF Set, Typed
<1>5. QED BY <1>1, <1>3, <1>4, IdleType, MissedKeeps

(* The command takes the next prompt, and that one is its own. *)
LEMMA AnswerKeeps ==
    ASSUME NodeInv, Answer
    PROVE  NodeInv'
<1>1. /\ Typed /\ CallOK /\ client.pc = "answer" /\ client' = Idle
      /\ UNCHANGED <<sent, async, clean>>
    BY DEF NodeInv, Answer
<1>2. PICK c \in Ids : c = client.id
    BY <1>1 DEF Typed
<1>3. /\ pipe[c] # <<>> /\ SetPipe(c, busy[c], Tail(pipe[c])) /\ conn[c].opened
      /\ last' = [cmd |-> client.cmd, prompt |-> Head(pipe[c]), clean |-> clean[c]]
    BY <1>1, <1>2 DEF Answer, TakePrompt, CallOK
<1>4. /\ conn[c] \in Entries /\ busy[c] \in Seq(Nat) /\ pipe[c] \in Seq(Nat)
      /\ Good(c) /\ Due(c) = {client.cmd}
    BY <1>1, <1>2 DEF NodeInv, Typed, Due, At
<1>5. clean[c] => pipe[c] = <<client.cmd>> /\ busy[c] = <<>>
    BY <1>3, <1>4 DEF Good, InStep, Empty, Holds
<1>6. PICK r \in Entries : /\ Set(c, r) /\ r.channel = conn[c].channel
                           /\ r.extended = conn[c].extended /\ r.opened = conn[c].opened
                           /\ r.prompted = conn[c].prompted /\ r.ready = conn[c].ready /\ r.half = conn[c].half
                           /\ r.alive => conn[c].alive
  <2> DEFINE open == conn[c].alive /\ client.op # "stop"
             r == [conn[c] EXCEPT !.alive = open]
  <2>1. open \in BOOLEAN /\ (open => conn[c].alive)
      BY <1>4 DEF Entries
  <2>2. Set(c, r)
      BY <1>1, <1>2 DEF Answer, Set, Typed
  <2> HIDE DEF open
  <2>3. /\ r \in Entries /\ r.channel = conn[c].channel
        /\ r.extended = conn[c].extended /\ r.opened = conn[c].opened
        /\ r.prompted = conn[c].prompted /\ r.ready = conn[c].ready /\ r.half = conn[c].half
        /\ r.alive = open
      BY <1>4, <2>1 DEF Entries
  <2> HIDE DEF r
  <2>4. QED BY <2>1, <2>2, <2>3
<1>7. /\ conn' \in [Ids -> Entries] /\ conn'[c] = r
      /\ \A d \in Ids : d # c => conn'[d] = conn[d]
    BY <1>1, <1>6, SetKeeps
<1>8. /\ busy' \in [Ids -> Seq(Nat)] /\ pipe' \in [Ids -> Seq(Nat)]
      /\ busy'[c] = busy[c] /\ pipe'[c] = Tail(pipe[c])
      /\ \A d \in Ids : d # c => busy'[d] = busy[d] /\ pipe'[d] = pipe[d]
  <2>1. Tail(pipe[c]) \in Seq(Nat)
      BY <1>3, <1>4
  <2>2. QED BY <1>1, <1>3, <1>4, <2>1, SetPipeKeeps
<1>9. ASSUME NEW x PROVE Head(<<x>>) = x /\ Tail(<<x>>) = <<>>
    OBVIOUS
<1>10. AnswersInStep'
  <2>1. last'.clean = clean[c] /\ last'.cmd = client.cmd /\ last'.prompt = Head(pipe[c])
      BY <1>3
  <2>2. QED BY <1>5, <1>9, <2>1 DEF AnswersInStep
<1>11. Typed' /\ CallOK' /\ Aside(c)
  <2>1. Typed'
      BY <1>1, <1>7, <1>8, IdleType DEF Typed
  <2>2. QED BY <1>1, <1>7, <1>8, <2>1, IdleType DEF CallOK, Aside, Opening
<1>12. Good(c)'
  <2>1. clean[c] => Empty(c)'
      BY <1>5, <1>8, <1>9 DEF Empty
  <2>2. InStep(c)'
      BY <1>1, <2>1 DEF InStep
  <2>3. ChannelOpened(c)' <=> ChannelOpened(c)
      BY <1>6, <1>7 DEF ChannelOpened
  <2>4. ~LoggingIn(c)'
      BY <1>1, IdleType DEF LoggingIn, At, Opening
  <2>5. QED BY <1>4, <1>6, <1>7, <2>2, <2>3, <2>4 DEF Good, Prompted, Kept
<1>13. QED BY <1>1, <1>2, <1>10, <1>11, <1>12, IdleType, StepAt

(* Ctrl-C: the prompt due is that of the asynchronous command. *)
LEMMA StopAsyncKeeps ==
    ASSUME NodeInv, StopAsync
    PROVE  NodeInv'
<1>1. /\ Typed /\ client.pc = "idle" /\ conn[Bg].opened /\ async # 0 /\ async' = 0
      /\ client' = [pc |-> "answer", id |-> Bg, op |-> "stop", cmd |-> async]
      /\ UNCHANGED <<conn, busy, pipe, sent, clean, last>>
    BY DEF NodeInv, StopAsync, Ready
<1>2. /\ client' \in Calls /\ client'.pc = "answer" /\ client'.id = Bg
      /\ client'.cmd = async
    BY <1>1, Distinct DEF Calls, Typed
<1>3. Typed' /\ CallOK' /\ AnswersInStep' /\ Aside(Bg)
  <2>1. Typed'
      BY <1>1, <1>2, Distinct DEF Typed
  <2>2. QED BY <1>1, <1>2, <2>1 DEF CallOK, AnswersInStep, NodeInv, Aside
<1>4. Good(Bg)'
  <2>1. Due(Bg) = {async} /\ Due(Bg)' = {async} /\ Good(Bg)
      BY <1>1, <1>2, Distinct DEF Due, At, NodeInv
  <2>2. ~LoggingIn(Bg)'
      BY <1>2 DEF LoggingIn, Opening
  <2>3. InStep(Bg)'
      BY <1>1, <2>1 DEF Good, InStep, Empty, Holds
  <2>4. QED BY <1>1, <2>1, <2>2, <2>3 DEF Good, Prompted, Kept, ChannelOpened
<1>5. QED BY <1>1, <1>2, <1>3, <1>4, Distinct, StepAt

----------------------------------------------------------------------------
(* Closing.                                                                *)

LEMMA CloseResultsType ==
    ASSUME NEW r \in Entries, NEW s \in CloseResults(r)
    PROVE  /\ s \in Entries
           /\ r.known /\ r.opened => ~s.opened
           /\ \/ s = r
              \/ /\ ~s.opened
                 /\ s.ready => ~s.alive
                 /\ \/ ~s.channel /\ ~s.ready
                    \/ /\ s.channel = r.channel /\ s.extended = r.extended
                       /\ s.prompted = r.prompted /\ (s.ready => r.ready)
<1>1. CASE ~r.known \/ ~r.opened
    BY <1>1 DEF CloseResults
<1>2. CASE r.known /\ r.opened
  <2>1. PICK t \in (IF ~r.ready THEN {r}
                    ELSE {SessionClosed(r)} \cup (IF r.alive THEN {} ELSE {r})) :
            s = [t EXCEPT !.opened = FALSE]
      BY <1>2 DEF CloseResults
  <2>2. CASE t = r
    <3>1. r.ready => ~r.alive \/ t = SessionClosed(r)
        BY <2>1
    <3>2. CASE r.ready => ~r.alive
        BY <1>2, <2>1, <2>2, <3>2 DEF Entries
    <3>3. CASE t = SessionClosed(r)
      <4>1. ~SessionClosed(r).ready
        <5>1. Closed(r) \in Entries /\ [r EXCEPT !.alive = FALSE] \in Entries
            BY ClosedType DEF Entries
        <5>2. \A z \in Entries : ~[z EXCEPT !.autoclose = FALSE, !.ready = FALSE].ready
            BY DEF Entries
        <5>3. QED BY <5>1, <5>2 DEF SessionClosed
      <4>2. ~r.ready
          BY <2>2, <3>3, <4>1
      <4>3. QED BY <3>2, <4>2
    <3>4. QED BY <3>1, <3>2, <3>3
  <2>3. CASE t = SessionClosed(r)
    <3>1. CASE r.autoclose
      <4> DEFINE z == Closed(r)
      <4>1. z \in Entries /\ ~z.channel
          BY ClosedType
      <4>2. t = [z EXCEPT !.autoclose = FALSE, !.ready = FALSE]
          BY <2>3, <3>1 DEF SessionClosed
      <4> HIDE DEF z
      <4>3. t \in Entries /\ ~t.channel /\ ~t.ready
          BY <4>1, <4>2 DEF Entries
      <4>4. s \in Entries /\ ~s.channel /\ ~s.ready /\ ~s.opened
          BY <2>1, <4>3 DEF Entries
      <4>5. QED BY <4>4
    <3>2. CASE ~r.autoclose
      <4>1. t = [[r EXCEPT !.alive = FALSE] EXCEPT !.autoclose = FALSE, !.ready = FALSE]
          BY <2>3, <3>2 DEF SessionClosed
      <4>2. /\ t \in Entries /\ ~t.ready /\ t.channel = r.channel
            /\ t.extended = r.extended /\ t.prompted = r.prompted
          BY <4>1 DEF Entries
      <4>3. /\ s \in Entries /\ ~s.ready /\ ~s.opened /\ s.channel = r.channel
            /\ s.extended = r.extended /\ s.prompted = r.prompted
          BY <2>1, <4>2 DEF Entries
      <4>4. QED BY <4>3
    <3>3. QED BY <3>1, <3>2
  <2>4. QED BY <2>1, <2>2, <2>3
<1>3. r.known \in BOOLEAN /\ r.opened \in BOOLEAN
    BY DEF Entries
<1>4. QED BY <1>1, <1>2, <1>3

LEMMA CloseOfKeeps ==
    ASSUME NodeInv, client.pc = "idle", NEW ids, CloseOf(ids),
           UNCHANGED <<client, sent, clean, last>>,
           async' = async \/ (async' = 0 /\ Bg \in ids /\ conn[Bg].known /\ conn[Bg].opened)
    PROVE  NodeInv'
<1>1. Typed /\ \A c \in Ids : conn[c] \in Entries /\ Good(c)
    BY DEF NodeInv, Typed
<1>2. PICK f \in [Ids -> UNION {CloseResults(conn[c]) : c \in Ids}] :
          /\ \A c \in Ids : IF c \in ids THEN f[c] \in CloseResults(conn[c]) ELSE f[c] = conn[c]
          /\ conn' = f
    BY DEF CloseOf
<1>3. \A c \in Ids : IF c \in ids THEN conn'[c] \in CloseResults(conn[c])
                     ELSE conn'[c] = conn[c]
    BY <1>2
<1>4. ASSUME NEW c \in Ids
      PROVE  /\ conn'[c] \in Entries
             /\ c \in ids /\ conn[c].known /\ conn[c].opened => ~conn'[c].opened
             /\ \/ conn'[c] = conn[c]
                \/ /\ ~conn'[c].opened
                   /\ conn'[c].ready => ~conn'[c].alive
                   /\ \/ ~conn'[c].channel /\ ~conn'[c].ready
                      \/ /\ conn'[c].channel = conn[c].channel
                         /\ conn'[c].extended = conn[c].extended
                         /\ conn'[c].prompted = conn[c].prompted
                         /\ (conn'[c].ready => conn[c].ready)
  <2>1. CASE c \in ids
      BY <1>1, <1>3, <1>4, <2>1, CloseResultsType
  <2>2. CASE c \notin ids
      BY <1>1, <1>3, <1>4, <2>2
  <2>3. QED BY <2>1, <2>2
<1>5. /\ \A c \in Ids : busy'[c] \in {busy[c], <<>>} /\ pipe'[c] \in {pipe[c], <<>>}
      /\ busy' \in [Ids -> Seq(Nat)] /\ pipe' \in [Ids -> Seq(Nat)]
    BY <1>1, EmptySeq DEF CloseOf, Typed
<1>6. Typed' /\ CallOK' /\ AnswersInStep'
  <2>1. conn' \in [Ids -> Entries]
      BY <1>2, <1>4
  <2>2. Typed'
      BY <1>1, <1>5, <2>1 DEF Typed
  <2>3. QED BY <2>2 DEF CallOK, AnswersInStep, NodeInv
<1>7. ASSUME NEW c \in Ids PROVE Good(c)'
  <2>1. ~LoggingIn(c) /\ ~LoggingIn(c)' /\ ~At(c) /\ ~At(c)'
      BY DEF LoggingIn, At
  <2>2. CASE conn'[c] = conn[c] /\ conn[c].opened
    <3>1. Due(c)' = Due(c)
        BY <1>4, <2>1, <2>2 DEF Due
    <3>2. InStep(c)'
        BY <1>1, <1>5, <2>1, <2>2, <3>1 DEF Good, InStep, Empty, Holds
    <3>3. QED BY <1>1, <2>1, <2>2, <3>2 DEF Good, Prompted, Kept, ChannelOpened
  <2>3. CASE ~(conn'[c] = conn[c] /\ conn[c].opened)
    <3>1. ~conn'[c].opened
        BY <1>4, <2>3
    <3>2. InStep(c)'
        BY <2>1, <3>1 DEF InStep
    <3>3. Prompted(c)' /\ Kept(c)'
        BY <1>1, <1>4, <2>1 DEF Good, Prompted, Kept, ChannelOpened
    <3>4. QED BY <3>2, <3>3 DEF Good
  <2>4. QED BY <2>2, <2>3
<1>8. QED BY <1>6, <1>7 DEF NodeInv

LEMMA CloseKeeps ==
    ASSUME NodeInv, Release \/ \E c \in Ids : Close(c)
    PROVE  NodeInv'
<1>1. CASE Release
    BY <1>1, CloseOfKeeps DEF Release, Ready
<1>2. ASSUME NEW c \in Ids, Close(c) PROVE NodeInv'
  <2>1. /\ client.pc = "idle" /\ CloseOf({c} \cup Children(c))
        /\ UNCHANGED <<client, sent, clean, last>>
        /\ async' = async \/ (async' = 0 /\ c = Bg /\ conn[c].known /\ conn[c].opened)
      BY <1>2 DEF Close, Ready
  <2>2. QED BY <2>1, CloseOfKeeps
<1>3. QED BY <1>1, <1>2

----------------------------------------------------------------------------
(* The remote side: a prompt moves to the pipe, or the ssh is gone.        *)
LEMMA RemoteKeeps ==
    ASSUME NodeInv, NEW c \in Ids, Complete(c) \/ Lost(c)
    PROVE  NodeInv'
<1>1. /\ Typed /\ Good(c) /\ conn[c] \in Entries /\ busy[c] \in Seq(Nat)
      /\ pipe[c] \in Seq(Nat) /\ UNCHANGED <<client, sent, async, clean, last>>
    BY DEF NodeInv, Typed, Complete, Lost
<1>2. /\ conn' \in [Ids -> Entries] /\ conn'[c] \in Entries
      /\ \A f \in {"known", "opened", "ready", "channel", "extended", "prompted", "half"} :
             conn'[c][f] = conn[c][f]
      /\ conn'[c].alive => conn[c].alive
      /\ \A d \in Ids : d # c => conn'[d] = conn[d]
  <2>1. CASE Complete(c)
      BY <1>1, <2>1 DEF Complete, Typed
  <2>2. CASE Lost(c)
    <3> DEFINE r == [conn[c] EXCEPT !.alive = FALSE]
    <3>1. Set(c, r)
        BY <1>1, <2>2 DEF Lost, Set, Typed
    <3>2. /\ r \in Entries /\ ~r.alive /\ r.known = conn[c].known
          /\ r.opened = conn[c].opened /\ r.ready = conn[c].ready
          /\ r.channel = conn[c].channel /\ r.extended = conn[c].extended
          /\ r.prompted = conn[c].prompted /\ r.half = conn[c].half
        BY <1>1 DEF Entries
    <3> HIDE DEF r
    <3>3. /\ conn' \in [Ids -> Entries] /\ conn'[c] = r
          /\ \A d \in Ids : d # c => conn'[d] = conn[d]
        BY <1>1, <3>1, <3>2, SetKeeps
    <3>4. QED BY <3>2, <3>3
  <2>3. QED BY <2>1, <2>2
<1>3. /\ busy' \in [Ids -> Seq(Nat)] /\ pipe' \in [Ids -> Seq(Nat)]
      /\ \A d \in Ids : d # c => busy'[d] = busy[d] /\ pipe'[d] = pipe[d]
      /\ Empty(c) => Empty(c)'
      /\ \A x \in Nat : Holds(c, x) => Empty(c)' \/ Holds(c, x)'
  <2>1. CASE Complete(c)
    <3> DEFINE b == Tail(busy[c])
               p == Append(pipe[c], Head(busy[c]))
    <3>1. busy[c] # <<>> /\ SetPipe(c, b, p)
        BY <2>1 DEF Complete
    <3>2. Head(busy[c]) \in Nat /\ b \in Seq(Nat)
        BY <1>1, <3>1
    <3>3. p \in Seq(Nat) /\ (pipe[c] = <<>> => p = <<Head(busy[c])>>)
        BY <1>1, <3>2, AppendOne
    <3>4. ASSUME NEW x \in Nat, busy[c] = <<x>> PROVE Head(busy[c]) = x /\ b = <<>>
        BY <3>4
    <3> HIDE DEF b, p
    <3>5. /\ busy' \in [Ids -> Seq(Nat)] /\ pipe' \in [Ids -> Seq(Nat)]
          /\ busy'[c] = b /\ pipe'[c] = p
          /\ \A d \in Ids : d # c => busy'[d] = busy[d] /\ pipe'[d] = pipe[d]
        BY <1>1, <3>1, <3>2, <3>3, SetPipeKeeps
    <3>6. QED BY <3>1, <3>3, <3>4, <3>5 DEF Empty, Holds
  <2>2. CASE Lost(c)
    <3>1. pipe' = pipe /\ busy' = [busy EXCEPT ![c] = <<>>]
        BY <2>2 DEF Lost
    <3>2. SetPipe(c, <<>>, pipe[c])
        BY <1>1, <3>1 DEF SetPipe, Typed
    <3>3. /\ busy' \in [Ids -> Seq(Nat)] /\ pipe' \in [Ids -> Seq(Nat)]
          /\ busy'[c] = <<>> /\ pipe'[c] = pipe[c]
          /\ \A d \in Ids : d # c => busy'[d] = busy[d] /\ pipe'[d] = pipe[d]
        BY <1>1, <3>2, EmptySeq, SetPipeKeeps
    <3>4. QED BY <3>3 DEF Empty, Holds
  <2>3. QED BY <2>1, <2>2
<1>4. Typed' /\ CallOK' /\ AnswersInStep'
  <2>1. Typed'
      BY <1>1, <1>2, <1>3 DEF Typed
  <2>2. \A d \in Ids : conn'[d].opened = conn[d].opened
    <3>1. "opened" \in {"known", "opened", "ready", "channel", "extended", "prompted", "half"}
        OBVIOUS
    <3>2. conn'[c].opened = conn[c].opened
        BY <1>2, <3>1
    <3>3. QED BY <1>2, <3>2
  <2>3. client.pc \in {"opened", "answer"} => client.id \in Ids
      BY <1>1 DEF Typed
  <2>4. CallOK /\ AnswersInStep /\ client' = client
      BY <1>1 DEF NodeInv
  <2>5. CallOK'
      BY <2>2, <2>3, <2>4 DEF CallOK
  <2>6. QED BY <1>1, <2>1, <2>4, <2>5 DEF AnswersInStep
<1>5. \A d \in Ids : /\ Due(d)' = Due(d) /\ (LoggingIn(d)' <=> LoggingIn(d))
                     /\ Due(d) \subseteq Nat
    BY <1>1 DEF Due, LoggingIn, At, Typed, Calls
<1>6. Good(c)'
  <2>1. InStep(c)'
      BY <1>1, <1>2, <1>3, <1>5 DEF Good, InStep
  <2>2. ChannelOpened(c)' <=> ChannelOpened(c)
      BY <1>2 DEF ChannelOpened
  <2>3. Prompted(c)' /\ Kept(c)'
      BY <1>1, <1>2, <1>5, <2>2 DEF Good, Prompted, Kept
  <2>4. QED BY <2>1, <2>3 DEF Good
<1>7. ASSUME NEW d \in Ids, d # c PROVE Good(d)'
  <2>1. Good(d) /\ conn'[d] = conn[d] /\ busy'[d] = busy[d] /\ pipe'[d] = pipe[d]
      BY <1>2, <1>3, <1>7 DEF NodeInv
  <2>2. InStep(d)'
      BY <1>1, <1>5, <2>1 DEF Good, InStep, Empty, Holds
  <2>3. ChannelOpened(d)' <=> ChannelOpened(d)
      BY <2>1 DEF ChannelOpened
  <2>4. Prompted(d)' /\ Kept(d)'
      BY <1>5, <2>1, <2>3 DEF Good, Prompted, Kept
  <2>5. QED BY <2>2, <2>4 DEF Good
<1>8. QED BY <1>4, <1>6, <1>7 DEF NodeInv

----------------------------------------------------------------------------
LEMMA NodeStepKeeps ==
    ASSUME NodeInv, [Next]_vars
    PROVE  NodeInv'
<1>1. ASSUME UNCHANGED vars PROVE NodeInv'
    BY <1>1 DEF vars, NodeInv, Typed, CallOK, AnswersInStep, Good, InStep, Prompted,
           Kept, Due, LoggingIn, At, Empty, Holds, ChannelOpened
<1>2. CASE Client
    BY <1>2, LoginSyncedKeeps, SecondKeeps, SendAfterOpenKeeps, LoginFailsKeeps,
       SecondFailsKeeps, AnswerKeeps, AnswerFailsKeeps DEF Client
<1>3. CASE Create \/ Extend \/ CloneAsync \/ StopAsync
    BY <1>3, CreateKeeps, ExtendKeeps, CloneAsyncKeeps, StopAsyncKeeps
<1>4. CASE Release \/ \E c \in Ids : Close(c)
    BY <1>4, CloseKeeps
<1>5. ASSUME NEW c \in Ids, Complete(c) \/ Lost(c) PROVE NodeInv'
    BY <1>5, RemoteKeeps
<1>6. ASSUME NEW c \in Ids, NEW o \in {"command", "async"}, Use(c, o) PROVE NodeInv'
    BY <1>6, UseKeeps
<1>7. QED BY <1>1, <1>2, <1>3, <1>4, <1>5, <1>6 DEF Next

(* The sessions of a node are always as NodeInv says, whatever is opened, *)
(* run, lost or closed.                                                   *)
THEOREM NodeInvHolds == Spec => []NodeInv
<1>1. Init => NodeInv
  <2> SUFFICES ASSUME Init PROVE NodeInv
      OBVIOUS
  <2>1. /\ conn = [c \in Ids |-> Absent] /\ clean = [c \in Ids |-> TRUE]
        /\ busy = [c \in Ids |-> <<>>] /\ pipe = [c \in Ids |-> <<>>]
        /\ client = Idle /\ sent = 0 /\ async = 0
        /\ last = [cmd |-> 0, prompt |-> 0, clean |-> TRUE]
      BY DEF Init
  <2>2. Absent \in Entries /\ ~Absent.opened /\ ~Absent.ready /\ ~Absent.channel
      BY AbsentType
  <2>3. Typed /\ CallOK /\ AnswersInStep
      BY <2>1, <2>2, IdleType, EmptySeq DEF Typed, CallOK, AnswersInStep, Opening
  <2>4. \A c \in Ids : Good(c)
      BY <2>1, <2>2, IdleType
         DEF Good, InStep, Prompted, Kept, LoggingIn, At, ChannelOpened
  <2>5. QED BY <2>3, <2>4 DEF NodeInv
<1>2. NodeInv /\ [Next]_vars => NodeInv'
    BY NodeStepKeeps
<1>3. QED BY <1>1, <1>2, PTL DEF Spec

(* For any number of commands and faults: on a session that was opened     *)
(* once on its ssh and saw no expired wait, a command takes its own        *)
(* prompt for its end.                                                     *)
THEOREM AnswersStayInStep == Spec => []AnswersInStep
<1>1. NodeInv => AnswersInStep
    BY DEF NodeInv
<1>2. QED BY <1>1, NodeInvHolds, PTL

(* And close_connection and release leave no session ready on a live ssh   *)
(* that the node takes for closed, but for one of EprtSetup whose set-up    *)
(* failed.                                                                  *)
THEOREM NoSessionStaysBehind == Spec => []NoSessionForgotten
<1>1. NodeInv => NoSessionForgotten
    BY Distinct DEF NodeInv, Good, Kept, NoSessionForgotten
<1>2. QED BY <1>1, NodeInvHolds, PTL
----------------------------------------------------------------------------
(*                              AlarmMonitor                               *)

LogRecords == [alarm : AlarmIds, kind : {"raise", "clear"}, time : Nat, file : Nat]

Monitors == [pc : {"off", "initial", "initial_store", "loop", "read", "store", "reconnect",
                   "ended", "dead"},
             running : BOOLEAN, conn : BOOLEAN, last : SUBSET AlarmIds,
             current : SUBSET AlarmIds, todo : SUBSET AlarmIds,
             db : [AlarmIds -> {"none", "Initial", "New", "Cleared"}]]

MonitorTyped ==
    /\ m \in Monitors /\ log \in Seq(LogRecords) /\ file \in Nat
    /\ DOMAIN hist = {"initial", "broken", "gap", "seen", "from"}
    /\ hist.broken \in BOOLEAN /\ up \in BOOLEAN

(* An alarm is raised once: what was sampled and has gone does not return. *)
OnceRaised ==
    active \subseteq Raised /\ m.last \subseteq Raised /\ m.current \subseteq Raised
    /\ hist.initial \subseteq Raised

(* The alarms of S that are still active are in the database. *)
Known(S) == m.conn => \A a \in S : a \in active => m.db[a] \in {"Initial", "New"}

(* What is New was in S and not there when the monitor connected. *)
NewIn(S) == \A a \in AlarmIds : m.db[a] = "New" => a \in S /\ a \notin hist.initial

(* The alarms of the connection that are still active are in S. *)
InitialIn(S) == \A a \in hist.initial : a \in active => a \in S

(* What the database holds at each point of a sample that nothing cut short. *)
InSample ==
    /\ m.pc \in {"off", "initial", "initial_store"} => NewIn({})
    /\ m.pc \in {"initial_store", "loop", "read", "store"} => InitialIn(m.last)
    /\ m.pc = "initial_store" => Known(m.last \ m.todo)
    /\ m.pc \in {"loop", "read", "store"} => Known(m.last)
    /\ m.pc \in {"loop", "read"} => NewIn(m.last)
    /\ m.pc = "store" => /\ NewIn(m.last \cup m.current) /\ InitialIn(m.current)
                         /\ Known(m.current \ m.todo)
                         /\ m.todo \subseteq m.current /\ m.todo \cap hist.initial = {}

MonitorInv ==
    /\ MonitorTyped /\ OnceRaised
    /\ m.pc \in {"reconnect", "dead"} => hist.broken
    /\ ~hist.broken => InSample

----------------------------------------------------------------------------
LEMMA RecordKeeps ==
    ASSUME NEW a \in AlarmIds, NEW k \in {"raise", "clear"}, MonitorTyped, Record(a, k)
    PROVE  log' \in Seq(LogRecords) /\ Raised' = Raised \cup {a}
<1> DEFINE r == [alarm |-> a, kind |-> k, time |-> Len(log) + 1, file |-> file]
<1>1. log \in Seq(LogRecords) /\ Len(log) \in Nat /\ file \in Nat
    BY DEF MonitorTyped
<1>2. r \in LogRecords /\ r.alarm = a
    BY <1>1 DEF LogRecords
<1>3. log' = Append(log, r)
    BY DEF Record
<1> HIDE DEF r
<1>4. /\ log' \in Seq(LogRecords) /\ Len(log') = Len(log) + 1
      /\ \A i \in 1 .. Len(log) : log'[i] = log[i]
      /\ log'[Len(log) + 1] = r
    BY <1>1, <1>2, <1>3
<1>5. 1 .. Len(log') = (1 .. Len(log)) \cup {Len(log) + 1}
    BY <1>1, <1>4
<1>6. QED BY <1>2, <1>4, <1>5 DEF Raised

(* What leaves the monitor, the list and the connection alone keeps the   *)
(* invariant: the alarms that go, and the other thread.                    *)
LEMMA OthersKeep ==
    ASSUME MonitorInv, m' = m, active' \subseteq active \cup (AlarmIds \ Raised),
           active' \subseteq Raised', Raised \subseteq Raised', MonitorTyped',
           hist'.initial = hist.initial, hist'.broken = hist.broken
    PROVE  MonitorInv'
<1>1. OnceRaised /\ OnceRaised'
    BY DEF MonitorInv, OnceRaised
<1>2. \A a \in hist.initial \cup m.last \cup m.current : a \in active' => a \in active
    BY <1>1 DEF OnceRaised
<1>3. \A S : S \subseteq m.last \cup m.current /\ Known(S) =>
             (m.conn => \A a \in S : a \in active' => m.db[a] \in {"Initial", "New"})
    BY <1>2 DEF Known
<1>4. ASSUME InSample PROVE InSample'
  <2>1. m.pc \in {"off", "initial", "initial_store"} => NewIn({})'
      BY <1>4 DEF InSample, NewIn
  <2>2. m.pc \in {"initial_store", "loop", "read", "store"} => InitialIn(m.last)'
      BY <1>2, <1>4 DEF InSample, InitialIn
  <2>3. m.pc = "initial_store" => Known(m.last \ m.todo)'
      BY <1>2, <1>4 DEF InSample, Known
  <2>4. m.pc \in {"loop", "read", "store"} => Known(m.last)'
      BY <1>2, <1>4 DEF InSample, Known
  <2>5. m.pc \in {"loop", "read"} => NewIn(m.last)'
      BY <1>4 DEF InSample, NewIn
  <2>6. m.pc = "store" => NewIn(m.last \cup m.current)' /\ InitialIn(m.current)'
                          /\ Known(m.current \ m.todo)'
      BY <1>2, <1>4 DEF InSample, NewIn, InitialIn, Known
  <2>7. QED BY <1>4, <2>1, <2>2, <2>3, <2>4, <2>5, <2>6 DEF InSample
<1>5. QED BY <1>1, <1>4 DEF MonitorInv

LEMMA NodeKeeps ==
    ASSUME MonitorInv, NodeStep
    PROVE  MonitorInv'
<1>1. MonitorTyped /\ OnceRaised
    BY DEF MonitorInv
<1>2. ASSUME NEW a \in AlarmIds, AlarmRaised(a) \/ AlarmCleared(a) PROVE MonitorInv'
  <2>1. PICK k \in {"raise", "clear"} : Record(a, k)
      BY <1>2 DEF AlarmRaised, AlarmCleared
  <2>2. log' \in Seq(LogRecords) /\ Raised' = Raised \cup {a}
      BY <1>1, <2>1, RecordKeeps
  <2>3. m' = m /\ hist' = hist /\ file' = file /\ up' = up
      BY <1>2 DEF AlarmRaised, AlarmCleared
  <2>4. active' \subseteq active \cup {a} /\ (a \notin active => a \notin Raised)
      BY <1>2 DEF AlarmRaised, AlarmCleared
  <2>5. MonitorTyped'
      BY <1>1, <2>2, <2>3 DEF MonitorTyped
  <2>6. QED BY <1>1, <2>2, <2>3, <2>4, <2>5, OthersKeep DEF OnceRaised
<1>3. ASSUME LogRotated \/ NodeLost \/ NodeBack PROVE MonitorInv'
  <2>1. m' = m /\ hist' = hist /\ log' = log /\ active' = active /\ file' \in Nat
      BY <1>1, <1>3 DEF LogRotated, NodeLost, NodeBack, MonitorTyped
  <2>2. up' \in BOOLEAN
      BY <1>1, <1>3, Zenon DEF LogRotated, NodeLost, NodeBack, MonitorTyped
  <2>3. Raised' = Raised
      BY <2>1 DEF Raised
  <2>4. MonitorTyped'
      BY <1>1, <2>1, <2>2 DEF MonitorTyped
  <2>5. QED BY <1>1, <2>1, <2>3, <2>4, OthersKeep DEF OnceRaised
<1>4. QED BY <1>2, <1>3 DEF NodeStep

LEMMA HandlerKeeps ==
    ASSUME MonitorInv, start_handling \/ HandlerStep \/ HandlerShutdown
    PROVE  MonitorInv'
<1>1. MonitorTyped /\ OnceRaised
    BY DEF MonitorInv
<1>2. m' = m /\ UNCHANGED node
  <2>1. CASE start_handling \/ HandlerShutdown
      BY <2>1 DEF start_handling, HandlerShutdown
  <2>2. CASE HandlerStep
      BY <2>2 DEF HandlerStep, FindLogs, LastLog, CatLogs, HandlerLoops, HandlerReconnects,
             WaitStatusOK
  <2>3. QED BY <2>1, <2>2
<1>3. \/ hist' = hist
      \/ \E s : hist' = [hist EXCEPT !.gap = s] \/ hist' = [hist EXCEPT !.seen = s]
      \/ \E s, t : hist' = [hist EXCEPT !.seen = s, !.from = t]
  <2>1. CASE start_handling
      BY <2>1 DEF start_handling
  <2>2. CASE HandlerShutdown
      BY <2>2 DEF HandlerShutdown
  <2>3. CASE FindLogs \/ LastLog
      BY <2>3 DEF FindLogs, LastLog
  <2>4. CASE CatLogs
      BY <2>4 DEF CatLogs
  <2>5. CASE HandlerLoops \/ HandlerReconnects \/ WaitStatusOK
      BY <2>5 DEF HandlerLoops, HandlerReconnects, WaitStatusOK
  <2>6. QED BY <2>1, <2>2, <2>3, <2>4, <2>5 DEF HandlerStep
<1>4. /\ DOMAIN hist' = {"initial", "broken", "gap", "seen", "from"}
      /\ hist'.initial = hist.initial /\ hist'.broken = hist.broken
    BY <1>1, <1>3 DEF MonitorTyped
<1>5. log' = log /\ active' = active /\ file' = file /\ up' = up /\ Raised' = Raised
    BY <1>2 DEF node, Raised
<1>6. MonitorTyped'
    BY <1>1, <1>2, <1>4, <1>5 DEF MonitorTyped
<1>7. QED BY <1>1, <1>2, <1>4, <1>5, <1>6, OthersKeep DEF OnceRaised

LEMMA NodeSame ==
    ASSUME UNCHANGED node
    PROVE  /\ active' = active /\ log' = log /\ file' = file /\ up' = up
           /\ Raised' = Raised
BY DEF node, Raised

LEMMA RaisedType ==
    ASSUME MonitorTyped
    PROVE  Raised \subseteq AlarmIds
<1>1. \A i \in 1 .. Len(log) : log[i] \in LogRecords
    BY DEF MonitorTyped
<1>2. QED BY <1>1 DEF Raised, LogRecords

(* A sample cut short leaves the type and the history. *)
LEMMA FailureKeeps ==
    ASSUME MonitorInv, CommandFails, UNCHANGED node
    PROVE  MonitorInv'
<1>1. MonitorTyped /\ OnceRaised
    BY DEF MonitorInv
<1>2. PICK p \in {"reconnect", "dead"} : m' = [m EXCEPT !.pc = p]
    BY DEF CommandFails
<1>3. m' \in Monitors /\ m'.last = m.last /\ m'.current = m.current
    BY <1>1, <1>2 DEF MonitorTyped, Monitors
<1>4. hist' = [hist EXCEPT !.broken = TRUE]
    BY DEF CommandFails
<1>5. /\ DOMAIN hist' = {"initial", "broken", "gap", "seen", "from"}
      /\ hist'.initial = hist.initial /\ hist'.broken = TRUE
    BY <1>1, <1>4 DEF MonitorTyped
<1>6. MonitorTyped' /\ OnceRaised'
    BY <1>1, <1>3, <1>5, NodeSame DEF MonitorTyped, OnceRaised
<1>7. QED BY <1>5, <1>6 DEF MonitorInv

(* A step of a sample that goes on: what is left to show is InSample.      *)
LEMMA SampleKeeps ==
    ASSUME MonitorInv, UNCHANGED node, hist' = hist, m' \in Monitors,
           m'.last \subseteq Raised, m'.current \subseteq Raised,
           m'.pc \in {"reconnect", "dead"} => m.pc \in {"reconnect", "dead"},
           ~hist.broken /\ InSample => InSample'
    PROVE  MonitorInv'
<1>1. MonitorTyped /\ OnceRaised
    BY DEF MonitorInv
<1>2. MonitorTyped' /\ OnceRaised'
    BY <1>1, NodeSame DEF MonitorTyped, OnceRaised
<1>3. QED BY <1>2 DEF MonitorInv

LEMMA StartKeeps ==
    ASSUME MonitorInv, start_monitoring
    PROVE  MonitorInv'
<1>1. MonitorTyped /\ OnceRaised /\ m.pc = "off" /\ UNCHANGED node /\ up \in BOOLEAN
    BY DEF MonitorInv, MonitorTyped, start_monitoring
<1>2. m' = [m EXCEPT !.pc = "initial", !.running = up, !.conn = up]
    BY DEF start_monitoring
<1>3. /\ m' \in Monitors /\ m'.pc = "initial" /\ m'.last = m.last
      /\ m'.current = m.current /\ m'.db = m.db
    BY <1>1, <1>2 DEF MonitorTyped, Monitors
<1>4. hist' = [hist EXCEPT !.initial = active]
    BY DEF start_monitoring
<1>5. /\ DOMAIN hist' = {"initial", "broken", "gap", "seen", "from"}
      /\ hist'.initial = active /\ hist'.broken = hist.broken
    BY <1>1, <1>4 DEF MonitorTyped
<1>6. MonitorTyped' /\ OnceRaised'
    BY <1>1, <1>3, <1>5, NodeSame DEF MonitorTyped, OnceRaised
<1>7. InSample => InSample'
    BY <1>1, <1>3 DEF InSample, NewIn
<1>8. QED BY <1>3, <1>5, <1>6, <1>7 DEF MonitorInv

LEMMA InitialReadKeeps ==
    ASSUME MonitorInv, InitialRead
    PROVE  MonitorInv'
<1>1. MonitorTyped /\ OnceRaised /\ m.pc = "initial" /\ UNCHANGED node
    BY DEF MonitorInv, InitialRead
<1>2. CASE CommandFails
    BY <1>1, <1>2, FailureKeeps
<1>3. CASE /\ hist' = hist
           /\ m' = [m EXCEPT !.pc = "initial_store", !.last = active, !.todo = active]
  <2>1. active \subseteq AlarmIds
      BY <1>1, RaisedType DEF OnceRaised
  <2>2. /\ m' \in Monitors /\ m'.pc = "initial_store" /\ m'.last = active /\ m'.todo = active
        /\ m'.current = m.current /\ m'.db = m.db
      BY <1>1, <1>3, <2>1 DEF MonitorTyped, Monitors
  <2>3. ASSUME InSample PROVE InSample'
      BY <1>1, <1>3, <2>2, <2>3, NodeSame DEF InSample, NewIn, InitialIn, Known
  <2>4. QED BY <1>1, <1>3, <2>2, <2>3, SampleKeeps DEF OnceRaised
<1>4. QED BY <1>2, <1>3 DEF InitialRead

(* One alarm of the sample is looked up and stored. *)
LEMMA AddKeeps ==
    ASSUME MonitorInv, NEW a \in m.todo, NEW state \in {"Initial", "New"},
           add_alarm_info(a, state), UNCHANGED node,
           \/ m.pc = "initial_store" /\ state = "Initial"
           \/ m.pc = "store" /\ state = "New"
    PROVE  MonitorInv'
<1>1. MonitorTyped /\ OnceRaised /\ a \in AlarmIds /\ m \in Monitors
    BY DEF MonitorInv, MonitorTyped, Monitors
<1>2. CASE CommandFails
    BY <1>1, <1>2, FailureKeeps
<1>3. CASE /\ hist' = hist
           /\ m' = [m EXCEPT !.todo = @ \ {a},
                             !.db[a] = IF m.conn /\ a \in active THEN state ELSE @]
  <2> DEFINE v == IF m.conn /\ a \in active THEN state ELSE m.db[a]
             d == [m.db EXCEPT ![a] = v]
  <2>1. v \in {"none", "Initial", "New", "Cleared"}
      BY <1>1 DEF Monitors
  <2>2. /\ d \in [AlarmIds -> {"none", "Initial", "New", "Cleared"}]
        /\ d[a] = v /\ \A b \in AlarmIds \ {a} : d[b] = m.db[b]
      BY <1>1, <2>1 DEF Monitors
  <2>3. m' = [m EXCEPT !.todo = m.todo \ {a}, !.db = d]
      BY <1>1, <1>3 DEF Monitors
  <2> HIDE DEF d
  <2>4. /\ m' \in Monitors /\ m'.pc = m.pc /\ m'.last = m.last /\ m'.current = m.current
        /\ m'.todo = m.todo \ {a} /\ m'.db = d /\ m'.conn = m.conn
      BY <1>1, <2>2, <2>3 DEF Monitors
  <2>5. active' = active
      BY NodeSame
  <2>6. ASSUME InSample PROVE InSample'
    <3>1. /\ m.conn /\ a \in active => d[a] = state
          /\ ~(m.conn /\ a \in active) => d[a] = m.db[a]
        BY <2>2
    <3> HIDE DEF v
    <3>2. ASSUME NEW S, NEW T, Known(S), T \subseteq S \cup {a}, S \subseteq AlarmIds
          PROVE  m.conn => \A b \in T : b \in active => d[b] \in {"Initial", "New"}
        BY <2>2, <3>1, <3>2 DEF Known
    <3>3. CASE m.pc = "initial_store"
      <4>1. NewIn({})'
          BY <1>1, <1>3, <2>2, <2>4, <2>6, <3>1, <3>3 DEF InSample, NewIn
      <4>2. Known(m.last \ m.todo)'
        <5>1. Known(m.last \ m.todo) /\ m.last \subseteq AlarmIds
            BY <1>1, <2>6, <3>3 DEF InSample, Monitors
        <5>2. m.conn => \A b \in m.last \ (m.todo \ {a}) :
                            b \in active => d[b] \in {"Initial", "New"}
            BY <3>2, <5>1
        <5>3. QED BY <2>4, <2>5, <5>2 DEF Known
      <4>3. InitialIn(m.last)'
          BY <1>3, <2>4, <2>5, <2>6, <3>3 DEF InSample, InitialIn
      <4>4. QED BY <2>4, <3>3, <4>1, <4>2, <4>3 DEF InSample
    <3>4. CASE m.pc = "store"
      <4>1. /\ m.todo \subseteq m.current /\ m.todo \cap hist.initial = {}
            /\ m.last \subseteq AlarmIds /\ m.current \subseteq AlarmIds
          BY <1>1, <2>6, <3>4 DEF InSample, Monitors
      <4>2. NewIn(m.last \cup m.current)'
          BY <1>1, <1>3, <2>2, <2>4, <2>6, <3>1, <3>4, <4>1 DEF InSample, NewIn
      <4>3. InitialIn(m.last)' /\ InitialIn(m.current)'
          BY <1>3, <2>4, <2>5, <2>6, <3>4 DEF InSample, InitialIn
      <4>4. Known(m.last)'
        <5>1. Known(m.last)
            BY <2>6, <3>4 DEF InSample
        <5>2. m.conn => \A b \in m.last : b \in active => d[b] \in {"Initial", "New"}
            BY <3>2, <4>1, <5>1
        <5>3. QED BY <2>4, <2>5, <5>2 DEF Known
      <4>5. Known(m.current \ m.todo)'
        <5>1. Known(m.current \ m.todo)
            BY <2>6, <3>4 DEF InSample
        <5>2. m.conn => \A b \in m.current \ (m.todo \ {a}) :
                            b \in active => d[b] \in {"Initial", "New"}
            BY <3>2, <4>1, <5>1
        <5>3. QED BY <2>4, <2>5, <5>2 DEF Known
      <4>6. QED BY <1>3, <2>4, <3>4, <4>1, <4>2, <4>3, <4>4, <4>5 DEF InSample
    <3>5. QED BY <3>3, <3>4
  <2>7. QED BY <1>1, <1>3, <2>4, <2>6, SampleKeeps DEF OnceRaised
<1>4. QED BY <1>2, <1>3 DEF add_alarm_info

LEMMA InitialStoreKeeps ==
    ASSUME MonitorInv, InitialStore
    PROVE  MonitorInv'
<1>1. MonitorTyped /\ OnceRaised /\ m.pc = "initial_store" /\ UNCHANGED node
    BY DEF MonitorInv, InitialStore
<1>2. ASSUME NEW a \in m.todo, add_alarm_info(a, "Initial") PROVE MonitorInv'
    BY <1>1, <1>2, AddKeeps
<1>3. ASSUME m.todo = {}, m' = [m EXCEPT !.pc = "loop"], hist' = hist PROVE MonitorInv'
  <2>1. /\ m' \in Monitors /\ m'.pc = "loop" /\ m'.last = m.last /\ m'.current = m.current
        /\ m'.db = m.db /\ m'.conn = m.conn
      BY <1>1, <1>3 DEF MonitorTyped, Monitors
  <2>2. ASSUME InSample PROVE InSample'
    <3>1. NewIn({}) /\ InitialIn(m.last) /\ Known(m.last \ m.todo)
        BY <1>1, <2>2 DEF InSample
    <3>2. NewIn(m.last)' /\ InitialIn(m.last)' /\ Known(m.last)'
        BY <1>1, <1>3, <2>1, <3>1, NodeSame DEF NewIn, InitialIn, Known
    <3>3. QED BY <2>1, <3>2 DEF InSample
  <2>3. QED BY <1>1, <1>3, <2>1, <2>2, SampleKeeps DEF OnceRaised
<1>4. QED BY <1>2, <1>3 DEF InitialStore

LEMMA SampleReadKeeps ==
    ASSUME MonitorInv, SampleRead
    PROVE  MonitorInv'
<1>1. MonitorTyped /\ OnceRaised /\ m.pc = "read" /\ UNCHANGED node
    BY DEF MonitorInv, SampleRead
<1>2. CASE CommandFails
    BY <1>1, <1>2, FailureKeeps
<1>3. CASE /\ hist' = hist
           /\ m' = [m EXCEPT !.pc = "store", !.current = active, !.todo = active \ m.last]
  <2>1. active \subseteq AlarmIds
      BY <1>1, RaisedType DEF OnceRaised
  <2>2. /\ m' \in Monitors /\ m'.pc = "store" /\ m'.current = active
        /\ m'.todo = active \ m.last /\ m'.last = m.last /\ m'.db = m.db /\ m'.conn = m.conn
      BY <1>1, <1>3, <2>1 DEF MonitorTyped, Monitors
  <2>3. ASSUME InSample PROVE InSample'
    <3>1. NewIn(m.last) /\ InitialIn(m.last) /\ Known(m.last)
        BY <1>1, <2>3 DEF InSample
    <3>2. NewIn(m.last \cup m.current)' /\ InitialIn(m.last)' /\ InitialIn(m.current)'
        BY <1>1, <1>3, <2>2, <3>1, NodeSame DEF NewIn, InitialIn
    <3>3. Known(m.last)' /\ Known(m.current \ m.todo)'
        BY <1>1, <2>2, <3>1, NodeSame DEF Known
    <3>4. m'.todo \subseteq m'.current /\ m'.todo \cap hist'.initial = {}
        BY <1>1, <1>3, <2>2, <3>1 DEF InitialIn
    <3>5. QED BY <2>2, <3>2, <3>3, <3>4 DEF InSample
  <2>4. QED BY <1>1, <1>3, <2>2, <2>3, SampleKeeps DEF OnceRaised
<1>4. QED BY <1>2, <1>3 DEF SampleRead

LEMMA SampleEndsKeeps ==
    ASSUME MonitorInv, SampleEnds
    PROVE  MonitorInv'
<1>1. /\ MonitorTyped /\ OnceRaised /\ m \in Monitors
      /\ m.pc = "store" /\ m.todo = {} /\ UNCHANGED node /\ hist' = hist
    BY DEF MonitorInv, MonitorTyped, SampleEnds
<1> DEFINE d == [a \in AlarmIds |-> IF a \in m.last \ m.current THEN clear_alarm_info(a)
                                    ELSE m.db[a]]
<1>2. m' = [m EXCEPT !.pc = "loop", !.last = m.current, !.db = d]
    BY <1>1 DEF SampleEnds, Monitors
<1>3. /\ d \in [AlarmIds -> {"none", "Initial", "New", "Cleared"}]
      /\ \A a \in AlarmIds : d[a] = "New" => m.db[a] = "New" /\ ~(a \in m.last \ m.current)
      /\ \A a \in m.current : a \in AlarmIds => d[a] = m.db[a]
    BY <1>1 DEF clear_alarm_info, Monitors
<1> HIDE DEF d
<1>4. /\ m' \in Monitors /\ m'.pc = "loop" /\ m'.last = m.current /\ m'.current = m.current
      /\ m'.db = d /\ m'.conn = m.conn /\ m.current \subseteq AlarmIds
    BY <1>1, <1>2, <1>3 DEF Monitors
<1>5. ASSUME InSample PROVE InSample'
  <2>1. NewIn(m.last \cup m.current) /\ InitialIn(m.current) /\ Known(m.current \ m.todo)
      BY <1>1, <1>5 DEF InSample
  <2>2. NewIn(m.last)' /\ InitialIn(m.last)' /\ Known(m.last)'
      BY <1>1, <1>3, <1>4, <2>1, NodeSame DEF NewIn, InitialIn, Known
  <2>3. QED BY <1>4, <2>2 DEF InSample
<1>6. QED BY <1>1, <1>4, <1>5, SampleKeeps DEF OnceRaised

(* The steps between two samples, and shutdown: only the point, whether it *)
(* runs and whether it is connected.                                       *)
LEMMA BetweenKeeps ==
    ASSUME MonitorInv, SampleBegins \/ reconnect \/ MonitorShutdown
    PROVE  MonitorInv'
<1>1. MonitorTyped /\ OnceRaised /\ m \in Monitors /\ UNCHANGED node /\ hist' = hist
    BY DEF MonitorInv, MonitorTyped, SampleBegins, reconnect, MonitorShutdown
<1>2. /\ m' \in Monitors /\ m'.last = m.last /\ m'.current = m.current /\ m'.db = m.db
      /\ m'.todo = m.todo /\ (m'.conn => m.conn)
      /\ \/ m'.pc = m.pc
         \/ m.pc = "reconnect" /\ m'.pc = "loop"
         \/ m.pc = "loop" /\ m'.pc \in {"read", "ended"}
  <2>1. CASE SampleBegins
      BY <1>1, <2>1 DEF SampleBegins, Monitors
  <2>2. CASE reconnect
      BY <1>1, <2>2 DEF reconnect, Monitors
  <2>3. CASE MonitorShutdown
      BY <1>1, <2>3 DEF MonitorShutdown, Monitors
  <2>4. QED BY <2>1, <2>2, <2>3
<1>3. /\ \A S : Known(S) => (m'.conn => \A a \in S : a \in active' => m'.db[a] \in {"Initial", "New"})
      /\ active' = active
    BY <1>1, <1>2, NodeSame DEF Known
<1>4. ASSUME InSample, ~hist.broken PROVE InSample'
  <2>1. m.pc # "reconnect"
      BY <1>4 DEF MonitorInv
  <2>2. m.pc = "loop" => NewIn(m.last)' /\ InitialIn(m.last)' /\ Known(m.last)'
      BY <1>1, <1>2, <1>3, <1>4 DEF InSample, NewIn, InitialIn, Known
  <2>3. CASE m.pc = "loop"
      BY <1>2, <2>2, <2>3 DEF InSample
  <2>4. CASE m.pc # "loop"
      BY <1>1, <1>2, <1>3, <1>4, <2>1, <2>4 DEF InSample, NewIn, InitialIn, Known
  <2>5. QED BY <2>3, <2>4
<1>5. QED BY <1>1, <1>2, <1>4, SampleKeeps DEF OnceRaised

(* AlarmMonitor is always at a point of its loop as MonitorInv says. *)
THEOREM MonitorInvHolds == AlarmsSpec => []MonitorInv
<1>1. AlarmsInit => MonitorInv
  <2> SUFFICES ASSUME AlarmsInit PROVE MonitorInv
      OBVIOUS
  <2>1. /\ m = NoMonitor /\ log = <<>> /\ active = {} /\ file = 1 /\ up = TRUE
        /\ hist = [initial |-> {}, broken |-> FALSE, gap |-> FALSE, seen |-> 0, from |-> 0]
      BY DEF AlarmsInit
  <2>2. /\ m \in Monitors /\ m.pc = "off" /\ m.last = {} /\ m.current = {}
        /\ \A a \in AlarmIds : m.db[a] = "none"
      BY <2>1 DEF NoMonitor, Monitors
  <2>3. MonitorTyped /\ OnceRaised
      BY <2>1, <2>2 DEF MonitorTyped, OnceRaised
  <2>4. InSample
      BY <2>2 DEF InSample, NewIn
  <2>5. QED BY <2>2, <2>3, <2>4 DEF MonitorInv
<1>2. ASSUME MonitorInv, [AlarmsNext]_alarmsVars PROVE MonitorInv'
  <2>1. ASSUME UNCHANGED alarmsVars PROVE MonitorInv'
      BY <1>2, <2>1, OthersKeep, NodeSame
         DEF alarmsVars, node, MonitorInv, MonitorTyped, OnceRaised
  <2>2. CASE NodeStep
      BY <1>2, <2>2, NodeKeeps
  <2>3. CASE start_handling \/ HandlerStep \/ HandlerShutdown
      BY <1>2, <2>3, HandlerKeeps
  <2>4. CASE start_monitoring
      BY <1>2, <2>4, StartKeeps
  <2>5. ASSUME StoreNew PROVE MonitorInv'
      BY <1>2, <2>5, AddKeeps DEF StoreNew
  <2>6. CASE MonitorStep \/ MonitorShutdown
      BY <1>2, <2>5, <2>6, InitialReadKeeps, InitialStoreKeeps, SampleReadKeeps,
         SampleEndsKeeps, BetweenKeeps DEF MonitorStep
  <2>7. QED BY <1>2, <2>1, <2>2, <2>3, <2>4, <2>6 DEF AlarmsNext
<1>3. QED BY <1>1, <1>2, PTL DEF AlarmsSpec

(* For any set of alarms and any number of samples and outages, and however *)
(* the owner's shutdown falls: between two samples the database of           *)
(* AlarmMonitor says New only of what came after it connected and was in    *)
(* the last list, and knows every alarm of that list that is still there.   *)
THEOREM MonitorStaysInStep == AlarmsSpec => []MonitorInStep
<1>1. MonitorInv => MonitorInStep
    BY DEF MonitorInv, MonitorTyped, Monitors, InSample, NewIn, Known, MonitorInStep
<1>2. QED BY <1>1, MonitorInvHolds, PTL

----------------------------------------------------------------------------
(*                          AlarmLogEventHandler                           *)

Handlers == [pc : {"off", "list", "active", "cat", "loop", "reconnect", "status", "ended", "dead"},
             running : BOOLEAN, conn : BOOLEAN, force : BOOLEAN, allow : BOOLEAN,
             first : BOOLEAN, lastlog : Nat, lasttime : Nat, files : SUBSET Nat, bare : SUBSET Nat,
             again : BOOLEAN, ev : [AlarmIds -> {"none", "Initial", "New", "Cleared"}]]

(* The log is in the order of time, and so are its files. *)
LogInOrder ==
    \A i \in 1 .. Len(log) :
        /\ log[i].time = i /\ log[i].file <= file
        /\ \A j \in i .. Len(log) : log[i].file <= log[j].file

Shows(e, what) == IF what = "raise" THEN e \in {"Initial", "New"} ELSE e \in {"none", "Cleared"}

(* ev says of every alarm what its last record among the first n says, the *)
(* records before the start left out.                                       *)
ShowsLast(ev, n) ==
    \A i \in (hist.from + 1) .. n :
        (\A k \in (i + 1) .. n : log[k].alarm # log[i].alarm)
            => Shows(ev[log[i].alarm], log[i].kind)

(* What was read is not after the last time or is in a file before f, and  *)
(* what was not read is in f or later.                                      *)
ReadBefore(f) ==
    /\ h.lasttime <= hist.seen
    /\ \A i \in 1 .. Len(log) :
           IF i <= hist.seen THEN i <= h.lasttime \/ log[i].file < f ELSE log[i].file >= f

Works == h.pc \in {"list", "active", "cat", "loop", "reconnect", "status"} /\ ~hist.gap

(* In the middle of the listings only the last log is listed. *)
Listing ==
    h.pc = "active" \/ (h.pc \in {"reconnect", "status"} /\ h.again)
        => h.files = {h.lastlog} /\ h.bare \subseteq {h.lastlog}

(* Between the listings and the reading the files are the last log of the   *)
(* sample before, f, and the active one, and what is not read is in one of  *)
(* them or later, and in f only if f is listed under a name it keeps.        *)
Listed(f) ==
    /\ f \in Nat /\ f <= h.lastlog /\ h.files = {f, h.lastlog} /\ h.lastlog \in h.bare
    /\ ReadBefore(f)
    /\ \A i \in (hist.seen + 1) .. Len(log) :
           log[i].file >= h.lastlog \/ (log[i].file = f /\ f \notin h.bare)

HandlerTyped ==
    /\ h \in Handlers /\ log \in Seq(LogRecords) /\ file \in Nat
    /\ DOMAIN hist = {"initial", "broken", "gap", "seen", "from"}
    /\ hist.seen \in 0 .. Len(log) /\ hist.from \in 0 .. hist.seen

HandlerInv ==
    /\ HandlerTyped /\ LogInOrder
    /\ Works =>
           /\ ShowsLast(h.ev, hist.seen) /\ h.lastlog <= file /\ Listing
           /\ h.pc # "cat" => ReadBefore(h.lastlog)
           /\ h.pc = "cat" => \E f \in Nat : Listed(f)

----------------------------------------------------------------------------
(* The least-number principle, from the well-foundedness of < on Nat. *)
LEMMA Smallest ==
    ASSUME NEW N, N \subseteq Nat, N # {}
    PROVE  \E x \in N : \A y \in N : x <= y
<1> DEFINE R == {ss \in Nat \X Nat : ss[1] < ss[2]}
<1>1. OpToRel(<, Nat) = R
    BY Zenon DEF OpToRel
<1>2. IsWellFoundedOn(R, Nat)
    BY <1>1, NatLessThanWellFounded, Zenon
<1>3. \A x, y \in Nat : <<y, x>> \in R <=> y < x
    OBVIOUS
<1> HIDE DEF R
<1>4. PICK x \in N : \A y \in N : ~(<<y, x>> \in R)
    BY <1>2, WFMin, Zenon
<1>5. \A y \in N : ~(y < x)
    BY <1>3, <1>4
<1>6. QED BY <1>5

LEMMA Largest ==
    ASSUME NEW n \in Nat, NEW N, N \subseteq 0 .. n, N # {}
    PROVE  Max(N) \in N /\ \A y \in N : y <= Max(N)
<1> DEFINE Gaps == {k \in 0 .. n : n - k \in N}
<1>1. Gaps \subseteq Nat /\ \A x \in N : n - x \in Gaps
    OBVIOUS
<1>2. PICK k \in Gaps : \A j \in Gaps : k <= j
  <2>1. Gaps # {}
      BY <1>1
  <2>2. QED BY <1>1, <2>1, Smallest
<1>3. k \in 0 .. n /\ n - k \in N
    BY <1>2
<1>4. ASSUME NEW y \in N PROVE n - k >= y
  <2>1. n - y \in Gaps /\ y \in 0 .. n
      BY <1>1
  <2>2. k <= n - y
      BY <1>2, <2>1
  <2>3. QED BY <1>3, <2>1, <2>2
<1> HIDE DEF Gaps
<1>5. \E x \in N : \A y \in N : x >= y
    BY <1>3, <1>4
<1>6. Max(N) \in N /\ \A y \in N : Max(N) >= y
    BY <1>5, Zenon DEF Max
<1>7. QED BY <1>6

(* The records of a set of files are taken one after the other. *)
LEMMA EventByEvent ==
    ASSUME NEW files, Len(log) \in Nat
    PROVE  \E after :
              /\ process_events(files) = after[Len(log)] /\ after[0] = h
              /\ \A i \in 1 .. Len(log) :
                    after[i] = IF i \in RecordsOf(files) THEN process_event(after[i - 1], log[i])
                               ELSE after[i - 1]
<1> DEFINE n == Len(log)
           next(f, i) == IF i = 0 THEN h
                         ELSE IF i \in RecordsOf(files) THEN process_event(f[i - 1], log[i])
                              ELSE f[i - 1]
           after[i \in 0 .. Len(log)] ==
               IF i = 0 THEN h
               ELSE IF i \in RecordsOf(files) THEN process_event(after[i - 1], log[i])
                    ELSE after[i - 1]
<1>1. process_events(files) = after[n]
    BY DEF process_events
<1>2. after = CHOOSE f : f = [i \in 0 .. n |-> next(f, i)]
    BY DEF after
<1> HIDE DEF after
<1> DEFINE Upto(k) == \E f : f = [i \in 0 .. k |-> next(f, i)]
           Short == {k \in 0 .. n : ~Upto(k)}
<1>3. \A f, g, i : (i = 0 \/ f[i - 1] = g[i - 1]) => next(f, i) = next(g, i)
    OBVIOUS
<1>4. Short \subseteq Nat
    OBVIOUS
<1>5. ASSUME Short # {} PROVE FALSE
  <2>1. PICK k \in Short : \A j \in Short : k <= j
      BY <1>4, <1>5, Smallest
  <2>2. k \in 0 .. n /\ ~Upto(k)
      BY <2>1
  <2>3. k # 0
    <3> DEFINE f == [i \in 0 .. 0 |-> h]
    <3>1. f = [i \in 0 .. 0 |-> next(f, i)]
        OBVIOUS
    <3> HIDE DEF f
    <3>2. Upto(0)
        BY <3>1
    <3>3. QED BY <2>2, <3>2
  <2>4. k - 1 \in 0 .. n /\ k \in Nat /\ k - 1 < k
      BY <2>2, <2>3
  <2> HIDE DEF Short
  <2>5. k - 1 \notin Short
      BY <2>1, <2>4 DEF Short
  <2>6. Upto(k - 1)
      BY <2>4, <2>5 DEF Short
  <2> HIDE DEF next
  <2>7. PICK f : f = [i \in 0 .. (k - 1) |-> next(f, i)]
      BY <2>6
  <2> DEFINE g == [i \in 0 .. k |-> IF i = k THEN next(f, k) ELSE f[i]]
  <2>8. \A i \in 0 .. k : i = k \/ i \in 0 .. (k - 1)
      BY <2>4
  <2>9. \A i \in 0 .. (k - 1) : f[i] = next(f, i)
      BY <2>7
  <2>10. \A i \in 0 .. (k - 1) : i \in 0 .. k /\ i # k /\ (i # 0 => i - 1 \in 0 .. (k - 1))
      BY <2>4
  <2>11. \A i \in 0 .. (k - 1) : g[i] = f[i]
      BY <2>10
  <2>12. k \in 0 .. k /\ k - 1 \in 0 .. (k - 1) /\ g[k] = next(f, k)
      BY <2>3, <2>4
  <2>13. DOMAIN g = 0 .. k /\ g = [i \in 0 .. k |-> g[i]]
      OBVIOUS
  <2> HIDE DEF g
  <2>14. next(f, k) = next(g, k)
      BY <1>3, <2>11, <2>12
  <2>15. \A i \in 0 .. (k - 1) : next(f, i) = next(g, i)
      BY <1>3, <2>10, <2>11
  <2>16. \A i \in 0 .. k : g[i] = next(g, i)
      BY <2>8, <2>9, <2>11, <2>12, <2>14, <2>15
  <2>17. g = [i \in 0 .. k |-> next(g, i)]
      BY <2>13, <2>16
  <2>18. QED BY <2>2, <2>17
<1>6. Upto(n)
    BY <1>5
<1>7. after = [i \in 0 .. n |-> next(after, i)]
    BY <1>2, <1>6
<1> HIDE DEF next
<1>8. \A i \in 0 .. n : after[i] = next(after, i)
    BY <1>7
<1>9. /\ after[0] = h
      /\ \A i \in 1 .. n :
            after[i] = IF i \in RecordsOf(files) THEN process_event(after[i - 1], log[i])
                       ELSE after[i - 1]
    BY <1>8 DEF next
<1>10. QED BY <1>1, <1>9

(* A record later than the last time is taken, and then ev shows it. *)
LEMMA TakesNext ==
    ASSUME HandlerTyped, LogInOrder, NEW s \in Handlers, NEW c \in Nat, hist.seen <= c,
           c < Len(log), s.lasttime <= c, ShowsLast(s.ev, c)
    PROVE  LET t == process_event(s, log[c + 1]) IN
           /\ t \in Handlers /\ t.lastlog = s.lastlog /\ t.lasttime = c + 1
           /\ ShowsLast(t.ev, c + 1)
<1> DEFINE r == log[c + 1]
           t == process_event(s, r)
           shown == IF r.kind = "raise" THEN (IF h.first THEN "Initial" ELSE "New")
                    ELSE IF s.ev[r.alarm] = "none" THEN "none" ELSE "Cleared"
<1>1. /\ Len(log) \in Nat /\ hist.seen \in Nat /\ hist.from \in 0 .. hist.seen
      /\ c + 1 \in 1 .. Len(log) /\ \A i \in 1 .. Len(log) : log[i] \in LogRecords
    BY DEF HandlerTyped
<1>2. r \in LogRecords /\ r.time = c + 1
    BY <1>1 DEF LogInOrder
<1>3. /\ r.alarm \in AlarmIds /\ r.kind \in {"raise", "clear"}
      /\ s.lasttime \in Nat /\ s.ev \in [AlarmIds -> {"none", "Initial", "New", "Cleared"}]
    BY <1>2 DEF LogRecords, Handlers
<1>4. shown \in {"none", "Initial", "New", "Cleared"} /\ Shows(shown, r.kind)
    BY <1>3 DEF Shows
<1>5. ~(r.time <= s.lasttime)
    BY <1>2, <1>3
<1>6. t = [s EXCEPT !.lasttime = r.time, !.ev[r.alarm] = shown]
    BY <1>5 DEF process_event
<1> HIDE DEF t, shown, r
<1>7. /\ t \in Handlers /\ t.lastlog = s.lastlog /\ t.lasttime = c + 1
      /\ t.ev = [s.ev EXCEPT ![r.alarm] = shown]
  <2> DEFINE ev == [s.ev EXCEPT ![r.alarm] = shown]
  <2>1. ev \in [AlarmIds -> {"none", "Initial", "New", "Cleared"}] /\ c + 1 \in Nat
      BY <1>3, <1>4
  <2>2. t = [s EXCEPT !.lasttime = c + 1, !.ev = ev]
      BY <1>2, <1>6 DEF Handlers
  <2> HIDE DEF ev
  <2>3. t \in Handlers /\ t.lastlog = s.lastlog /\ t.lasttime = c + 1 /\ t.ev = ev
      BY <2>1, <2>2 DEF Handlers
  <2>4. QED BY <2>3 DEF ev
<1>8. /\ t.ev[r.alarm] = shown
      /\ \A a \in AlarmIds : a # r.alarm => t.ev[a] = s.ev[a]
    BY <1>3, <1>7
<1>9. ShowsLast(t.ev, c + 1)
  <2> SUFFICES ASSUME NEW i \in (hist.from + 1) .. (c + 1),
                      \A k \in (i + 1) .. (c + 1) : log[k].alarm # log[i].alarm
               PROVE  Shows(t.ev[log[i].alarm], log[i].kind)
      BY DEF ShowsLast
  <2>1. i \in Nat /\ i \in 1 .. Len(log) /\ (i = c + 1 \/ i <= c)
      BY <1>1
  <2>2. CASE i = c + 1
      BY <1>4, <1>8, <2>2 DEF r
  <2>3. CASE i <= c
    <3>1. /\ i \in (hist.from + 1) .. c /\ c + 1 \in (i + 1) .. (c + 1)
          /\ \A k \in (i + 1) .. c : k \in (i + 1) .. (c + 1)
        BY <1>1, <2>1, <2>3
    <3>2. log[i].alarm # r.alarm /\ log[i].alarm \in AlarmIds
        BY <1>1, <2>1, <3>1 DEF r, LogRecords
    <3>3. Shows(s.ev[log[i].alarm], log[i].kind)
        BY <3>1 DEF ShowsLast
    <3>4. QED BY <1>8, <3>2, <3>3
  <2>4. QED BY <2>1, <2>2, <2>3
<1>10. QED BY <1>7, <1>9 DEF t, r

(* The records of a sample: those already read are passed over, those up   *)
(* to seen are in the files, the later ones are not.                        *)
LEMMA ReadsOn ==
    ASSUME HandlerTyped, LogInOrder, ShowsLast(h.ev, hist.seen), h.lasttime <= hist.seen,
           NEW files, NEW seen \in hist.seen .. Len(log),
           \A i \in RecordsOf(files) : i <= seen /\ (i <= hist.seen => i <= h.lasttime),
           (hist.seen + 1) .. seen \subseteq RecordsOf(files)
    PROVE  LET s == process_events(files) IN
           /\ s \in Handlers /\ s.lastlog = h.lastlog /\ h.lasttime <= s.lasttime
           /\ s.lasttime <= seen /\ (seen > hist.seen => s.lasttime = seen)
           /\ ShowsLast(s.ev, seen)
<1>1. /\ Len(log) \in Nat /\ hist.seen \in Nat /\ seen \in Nat /\ seen <= Len(log)
      /\ hist.seen <= seen /\ h \in Handlers /\ h.lasttime \in Nat
    BY DEF HandlerTyped, Handlers
<1>2. PICK after :
          /\ process_events(files) = after[Len(log)] /\ after[0] = h
          /\ \A i \in 1 .. Len(log) :
                after[i] = IF i \in RecordsOf(files) THEN process_event(after[i - 1], log[i])
                           ELSE after[i - 1]
    BY <1>1, EventByEvent
<1> DEFINE upto(i) == IF i <= hist.seen THEN hist.seen ELSE IF i <= seen THEN i ELSE seen
           Fine(i) == /\ after[i] \in Handlers /\ after[i].lastlog = h.lastlog
                      /\ h.lasttime <= after[i].lasttime /\ after[i].lasttime <= upto(i)
                      /\ i <= hist.seen => after[i].lasttime = h.lasttime
                      /\ upto(i) > hist.seen => after[i].lasttime = upto(i)
                      /\ ShowsLast(after[i].ev, upto(i))
           Bad == {i \in 0 .. Len(log) : ~Fine(i)}
<1>3. Fine(0)
    BY <1>1, <1>2
<1>4. ASSUME NEW i \in 1 .. Len(log), Fine(i - 1) PROVE Fine(i)
  <2>1. /\ i \in Nat /\ i - 1 \in Nat /\ i - 1 < Len(log) /\ (i - 1) + 1 = i
        /\ after[i - 1].lasttime \in Nat
      BY <1>1, <1>4 DEF Handlers
  <2>2. CASE i <= hist.seen
    <3>1. upto(i) = hist.seen /\ upto(i - 1) = hist.seen /\ after[i - 1].lasttime = h.lasttime
        BY <1>1, <1>4, <2>1, <2>2
    <3>2. after[i] = after[i - 1]
      <4>1. CASE i \in RecordsOf(files)
        <5>1. log[i].time = i /\ i <= h.lasttime
            BY <2>2, <4>1 DEF LogInOrder
        <5>2. process_event(after[i - 1], log[i]) = after[i - 1]
            BY <3>1, <5>1 DEF process_event
        <5>3. QED BY <1>2, <4>1, <5>2
      <4>2. CASE i \notin RecordsOf(files)
          BY <1>2, <4>2
      <4>3. QED BY <4>1, <4>2
    <3>3. QED BY <1>1, <1>4, <2>2, <3>1, <3>2
  <2>3. CASE hist.seen < i /\ i <= seen
    <3>1. i \in RecordsOf(files) /\ upto(i) = i /\ upto(i - 1) = i - 1
        BY <1>1, <2>1, <2>3
    <3>2. /\ process_event(after[i - 1], log[i]) \in Handlers
          /\ process_event(after[i - 1], log[i]).lastlog = after[i - 1].lastlog
          /\ process_event(after[i - 1], log[i]).lasttime = i
          /\ ShowsLast(process_event(after[i - 1], log[i]).ev, i)
      <4> DEFINE c == i - 1
                 s == after[i - 1]
      <4>1. /\ s \in Handlers /\ c \in Nat /\ hist.seen <= c /\ c < Len(log)
            /\ s.lasttime <= c /\ ShowsLast(s.ev, c) /\ c + 1 = i
          BY <1>1, <1>4, <2>1, <2>3, <3>1
      <4> HIDE DEF c, s
      <4>2. LET t == process_event(s, log[c + 1]) IN
            /\ t \in Handlers /\ t.lastlog = s.lastlog /\ t.lasttime = c + 1
            /\ ShowsLast(t.ev, c + 1)
          BY <4>1, TakesNext
      <4>3. QED BY <4>1, <4>2 DEF s
    <3>3. after[i] = process_event(after[i - 1], log[i])
        BY <1>2, <3>1
    <3>4. QED BY <1>1, <1>4, <2>1, <2>3, <3>1, <3>2, <3>3
  <2>4. CASE seen < i
    <3>1. i \notin RecordsOf(files) /\ upto(i) = seen
        BY <1>1, <2>1, <2>4
    <3>2. after[i] = after[i - 1]
        BY <1>2, <3>1
    <3>3. upto(i - 1) = seen
        BY <1>1, <2>1, <2>4
    <3>4. QED BY <1>1, <1>4, <2>1, <2>4, <3>1, <3>2, <3>3
  <2>5. QED BY <1>1, <2>1, <2>2, <2>3, <2>4
<1>5. ASSUME Bad # {} PROVE FALSE
  <2>1. Bad \subseteq Nat
      BY <1>1
  <2> HIDE DEF Good
  <2>2. PICK k \in Bad : \A j \in Bad : k <= j
      BY <1>5, <2>1, Smallest
  <2>3. k \in 0 .. Len(log) /\ ~Fine(k)
      BY <2>2
  <2>4. k # 0
      BY <1>3, <2>3
  <2>5. k \in 1 .. Len(log) /\ k - 1 \in 0 .. Len(log) /\ k - 1 < k
      BY <1>1, <2>3, <2>4
  <2>6. k - 1 \notin Bad
      BY <1>1, <2>2, <2>5
  <2>7. Fine(k - 1)
      BY <2>5, <2>6
  <2>8. QED BY <1>4, <2>3, <2>5, <2>7
<1>6. Fine(Len(log))
  <2>1. Len(log) \in 0 .. Len(log)
      BY <1>1
  <2> HIDE DEF Good
  <2>2. QED BY <1>5, <2>1
<1>7. upto(Len(log)) = seen
    BY <1>1
<1>8. QED BY <1>2, <1>6, <1>7

(* What neither reads nor writes the log, and leaves the last time, the    *)
(* events and the last log alone, keeps the invariant.                     *)
LEMMA HandlerMoves ==
    ASSUME HandlerInv, log' = log, file' = file, h' \in Handlers,
           DOMAIN hist' = DOMAIN hist, hist'.seen = hist.seen, hist'.from = hist.from,
           h'.lasttime = h.lasttime, h'.ev = h.ev, h'.lastlog = h.lastlog, Works' => Works,
           Works' /\ Listing => Listing',
           Works' /\ h.pc # "cat" => h'.pc # "cat",
           Works' /\ h'.pc = "cat" => h'.files = h.files /\ h'.bare = h.bare,
           Works' /\ h.pc = "cat" /\ h'.pc # "cat" => ReadBefore(h.lastlog)
    PROVE  HandlerInv'
<1>1. HandlerTyped' /\ LogInOrder'
    BY DEF HandlerInv, HandlerTyped, LogInOrder
<1>2. ASSUME Works'
      PROVE  /\ ShowsLast(h.ev, hist.seen)' /\ h'.lastlog <= file' /\ Listing'
             /\ h'.pc # "cat" => ReadBefore(h.lastlog)'
             /\ h'.pc = "cat" => \E f \in Nat : Listed(f)'
  <2>1. /\ Works /\ ShowsLast(h.ev, hist.seen) /\ h.lastlog <= file /\ Listing
        /\ h.pc # "cat" => ReadBefore(h.lastlog)
        /\ h.pc = "cat" => \E f \in Nat : Listed(f)
      BY <1>2 DEF HandlerInv
  <2>2. ShowsLast(h.ev, hist.seen)'
      BY <2>1 DEF ShowsLast
  <2>3. \A f \in Nat : ReadBefore(f) => ReadBefore(f)'
      BY DEF ReadBefore
  <2>4. h.lastlog \in Nat
      BY DEF HandlerInv, HandlerTyped, Handlers
  <2>5. h'.pc # "cat" => ReadBefore(h.lastlog)'
    <3>1. h'.pc # "cat" => ReadBefore(h.lastlog)
        BY <1>2, <2>1
    <3>2. QED BY <3>1 DEF ReadBefore
  <2>6. ASSUME h'.pc = "cat" PROVE \E f \in Nat : Listed(f)'
    <3>1. h.pc = "cat" /\ h'.files = h.files /\ h'.bare = h.bare
        BY <1>2, <2>6
    <3>2. PICK f \in Nat : Listed(f)
        BY <2>1, <3>1
    <3>3. Listed(f)'
        BY <2>3, <3>1, <3>2 DEF Listed
    <3>4. QED BY <2>1, <3>1, <3>3
  <2>7. QED BY <1>2, <2>1, <2>2, <2>5, <2>6
<1>3. QED BY <1>1, <1>2 DEF HandlerInv

(* A new record is the last of the log, not read, and in the active file.  *)
LEMMA RecordsKeep ==
    ASSUME HandlerInv, NEW a \in AlarmIds, NEW k \in {"raise", "clear"}, Record(a, k),
           h' = h, hist' = hist, file' = file
    PROVE  HandlerInv'
<1> DEFINE n == Len(log) + 1
           r == [alarm |-> a, kind |-> k, time |-> n, file |-> file]
<1>1. /\ HandlerTyped /\ LogInOrder /\ log \in Seq(LogRecords) /\ Len(log) \in Nat /\ n \in Nat
      /\ file \in Nat /\ h \in Handlers /\ hist.seen \in 0 .. Len(log)
      /\ hist.from \in 0 .. hist.seen
    BY DEF HandlerInv, HandlerTyped
<1>2. r \in LogRecords /\ r.time = n /\ r.file = file
    BY <1>1 DEF LogRecords
<1>3. log' = Append(log, r)
    BY DEF Record
<1> HIDE DEF r
<1>4. /\ log' \in Seq(LogRecords) /\ Len(log') = n /\ log'[n] = r
      /\ \A i \in 1 .. Len(log) : log'[i] = log[i]
    BY <1>1, <1>2, <1>3
<1>5. /\ \A i \in 1 .. n : i = n \/ i \in 1 .. Len(log)
      /\ \A i \in 1 .. Len(log) : log[i].time = i /\ log[i].file <= file /\ log[i] \in LogRecords
    BY <1>1 DEF LogInOrder
<1>6. HandlerTyped'
    BY <1>1, <1>4 DEF HandlerTyped
<1>7. LogInOrder'
  <2>1. \A i \in 1 .. n : log'[i].time = i /\ log'[i].file <= file
      BY <1>1, <1>2, <1>4, <1>5
  <2>2. \A i \in 1 .. n : \A j \in i .. n : log'[i].file <= log'[j].file
    <3> SUFFICES ASSUME NEW i \in 1 .. n, NEW j \in i .. n
                 PROVE  log'[i].file <= log'[j].file
        OBVIOUS
    <3>1. CASE j = n
        BY <1>2, <1>4, <2>1, <3>1
    <3>2. CASE j # n
      <4>1. i \in 1 .. Len(log) /\ j \in i .. Len(log) /\ j \in 1 .. Len(log)
          BY <1>1, <3>2
      <4>2. QED BY <1>1, <1>4, <4>1 DEF LogInOrder
    <3>3. QED BY <3>1, <3>2
  <2>3. QED BY <1>4, <2>1, <2>2 DEF LogInOrder
<1>8. ASSUME Works'
      PROVE  /\ ShowsLast(h.ev, hist.seen)' /\ h'.lastlog <= file' /\ Listing'
             /\ h'.pc # "cat" => ReadBefore(h.lastlog)'
             /\ h'.pc = "cat" => \E f \in Nat : Listed(f)'
  <2>1. /\ Works /\ ShowsLast(h.ev, hist.seen) /\ h.lastlog <= file /\ Listing
        /\ h.pc # "cat" => ReadBefore(h.lastlog)
        /\ h.pc = "cat" => \E f \in Nat : Listed(f)
      BY <1>8 DEF HandlerInv, Works
  <2>2. ShowsLast(h.ev, hist.seen)'
    <3>1. \A i \in 1 .. hist.seen : i \in 1 .. Len(log) /\ log'[i] = log[i]
        BY <1>1, <1>4
    <3>2. \A i \in (hist.from + 1) .. hist.seen :
              i \in 1 .. hist.seen /\ \A j \in (i + 1) .. hist.seen : j \in 1 .. hist.seen
        BY <1>1
    <3>3. QED BY <2>1, <3>1, <3>2 DEF ShowsLast
  <2>3. \A f \in Nat : f <= file /\ ReadBefore(f) => ReadBefore(f)'
    <3> SUFFICES ASSUME NEW f \in Nat, f <= file, ReadBefore(f) PROVE ReadBefore(f)'
        OBVIOUS
    <3>1. ~(n <= hist.seen) /\ log'[n].file >= f
        BY <1>1, <1>2, <1>4
    <3>2. QED BY <1>4, <1>5, <3>1 DEF ReadBefore
  <2>4. h.lastlog \in Nat /\ Listing'
      BY <1>1, <2>1 DEF Handlers, Listing
  <2>5. ASSUME h'.pc = "cat" PROVE \E f \in Nat : Listed(f)'
    <3>1. PICK f \in Nat : Listed(f)
        BY <2>1, <2>5
    <3>2. f <= file /\ log'[n].file >= h.lastlog
        BY <1>1, <1>2, <1>4, <2>1, <2>4, <3>1 DEF Listed
    <3>3. \A i \in (hist.seen + 1) .. n :
             log'[i].file >= h.lastlog \/ (log'[i].file = f /\ f \notin h.bare)
      <4>1. \A i \in (hist.seen + 1) .. n : i = n \/ i \in (hist.seen + 1) .. Len(log)
          BY <1>1
      <4>2. \A i \in (hist.seen + 1) .. Len(log) : i \in 1 .. Len(log)
          BY <1>1
      <4>3. QED BY <1>4, <3>1, <3>2, <4>1, <4>2 DEF Listed
    <3>4. Listed(f)'
        BY <1>4, <2>3, <3>1, <3>2, <3>3 DEF Listed
    <3>5. QED BY <2>1, <2>5, <3>4
  <2>6. QED BY <2>1, <2>2, <2>3, <2>4, <2>5
<1>9. QED BY <1>6, <1>7, <1>8 DEF HandlerInv

(* The node: records come, the log is rotated, the node goes and returns.  *)
LEMMA NodeKeepsHandler ==
    ASSUME HandlerInv, NodeStep
    PROVE  HandlerInv'
<1>1. ASSUME NEW a \in AlarmIds, AlarmRaised(a) \/ AlarmCleared(a) PROVE HandlerInv'
  <2>1. PICK k \in {"raise", "clear"} : Record(a, k)
      BY <1>1 DEF AlarmRaised, AlarmCleared
  <2>2. h' = h /\ hist' = hist /\ file' = file
      BY <1>1 DEF AlarmRaised, AlarmCleared
  <2>3. QED BY <2>1, <2>2, RecordsKeep
<1>2. CASE LogRotated
  <2>1. log' = log /\ h' = h /\ hist' = hist /\ file' = file + 1 /\ file \in Nat
      BY <1>2 DEF LogRotated, HandlerInv, HandlerTyped
  <2>2. /\ \A i \in 1 .. Len(log) : log[i].file \in Nat
        /\ h.lastlog \in Nat
    <3>1. h \in Handlers /\ \A i \in 1 .. Len(log) : log[i] \in LogRecords
        BY DEF HandlerInv, HandlerTyped
    <3>2. QED BY <3>1 DEF LogRecords, Handlers
  <2>3. HandlerTyped' /\ LogInOrder'
      BY <2>1, <2>2 DEF HandlerInv, HandlerTyped, LogInOrder
  <2>4. /\ \A f \in Nat : (ReadBefore(f) => ReadBefore(f)') /\ (Listed(f) => Listed(f)')
        /\ Listing => Listing'
      BY <2>1 DEF ReadBefore, Listed, Listing
  <2>5. Works' => Works /\ (ShowsLast(h.ev, hist.seen) => ShowsLast(h.ev, hist.seen)')
      BY <2>1 DEF Works, ShowsLast
  <2>6. Works => /\ ShowsLast(h.ev, hist.seen) /\ h.lastlog <= file /\ Listing
                 /\ h.pc # "cat" => ReadBefore(h.lastlog)
                 /\ h.pc = "cat" => \E f \in Nat : Listed(f)
      BY DEF HandlerInv
  <2>7. h.lastlog <= file => h'.lastlog <= file'
      BY <2>1, <2>2
  <2>8. h'.pc = "cat" /\ Works' => \E f \in Nat : Listed(f)'
      BY <2>1, <2>4, <2>5, <2>6
  <2>9. h'.pc # "cat" /\ Works' => ReadBefore(h.lastlog)'
      BY <2>1, <2>2, <2>4, <2>5, <2>6
  <2>10. QED BY <2>3, <2>4, <2>5, <2>6, <2>7, <2>8, <2>9 DEF HandlerInv
<1>3. CASE NodeLost \/ NodeBack
  <2>1. log' = log /\ file' = file /\ h' = h /\ hist' = hist
      BY <1>3 DEF NodeLost, NodeBack
  <2>2. QED BY <2>1, HandlerMoves DEF HandlerInv, HandlerTyped, Works, Listing
<1>4. QED BY <1>1, <1>2, <1>3 DEF NodeStep

(* The other thread.                                                        *)
LEMMA MonitorKeepsHandler ==
    ASSUME HandlerInv, start_monitoring \/ MonitorStep \/ MonitorShutdown
    PROVE  HandlerInv'
<1>1. log' = log /\ file' = file /\ h' = h
    BY DEF start_monitoring, MonitorStep, MonitorShutdown, InitialRead, InitialStore,
           SampleBegins, SampleRead, StoreNew, SampleEnds, reconnect, node
<1>2. \/ hist' = hist \/ \E s : hist' = [hist EXCEPT !.initial = s]
      \/ hist' = [hist EXCEPT !.broken = TRUE]
  <2>1. CASE start_monitoring
      BY <2>1 DEF start_monitoring
  <2>2. CASE MonitorShutdown \/ SampleBegins \/ SampleEnds \/ reconnect
      BY <2>2 DEF MonitorShutdown, SampleBegins, SampleEnds, reconnect
  <2>3. CommandFails => hist' = [hist EXCEPT !.broken = TRUE]
      BY DEF CommandFails
  <2>4. CASE InitialRead
      BY <2>3, <2>4 DEF InitialRead
  <2>5. CASE SampleRead
      BY <2>3, <2>5 DEF SampleRead
  <2>6. \A a, s : add_alarm_info(a, s) => hist' = hist \/ CommandFails
      BY DEF add_alarm_info
  <2>7. CASE InitialStore
      BY <2>3, <2>6, <2>7, Zenon DEF InitialStore
  <2>8. CASE StoreNew
      BY <2>3, <2>6, <2>8, Zenon DEF StoreNew
  <2>9. QED BY <2>1, <2>2, <2>4, <2>5, <2>7, <2>8 DEF MonitorStep
<1>3. /\ DOMAIN hist' = DOMAIN hist /\ hist'.seen = hist.seen /\ hist'.from = hist.from
      /\ hist'.gap = hist.gap
    BY <1>2 DEF HandlerInv, HandlerTyped
<1>4. Works' => Works
    BY <1>1, <1>3 DEF Works
<1>5. QED BY <1>1, <1>3, <1>4, HandlerMoves DEF HandlerInv, HandlerTyped, Listing

LEMMA StartHandling ==
    ASSUME HandlerInv, start_handling
    PROVE  HandlerInv'
<1> DEFINE old == RecordsOf({file})
           latest == IF old = {} THEN 0 ELSE log[Max(old)].time
<1>1. /\ log' = log /\ file' = file /\ Len(log) \in Nat /\ file \in Nat /\ h \in Handlers
      /\ hist' = [hist EXCEPT !.seen = Len(log), !.from = Len(log)]
      /\ DOMAIN hist = {"initial", "broken", "gap", "seen", "from"}
    BY DEF start_handling, node, HandlerInv, HandlerTyped
<1>2. hist'.seen = Len(log) /\ hist'.from = Len(log) /\ hist'.gap = hist.gap
    BY <1>1
<1>3. /\ latest \in 0 .. Len(log)
      /\ \A i \in 1 .. Len(log) : i <= latest \/ log[i].file < file
  <2>1. \A i \in 1 .. Len(log) : log[i].time = i /\ log[i].file <= file /\ log[i].file \in Nat
    <3>1. \A i \in 1 .. Len(log) : log[i] \in LogRecords
        BY DEF HandlerInv, HandlerTyped
    <3>2. QED BY <3>1 DEF LogRecords, HandlerInv, LogInOrder
  <2>2. \A i \in 1 .. Len(log) : i \in old \/ log[i].file < file
      BY <1>1, <2>1 DEF RecordsOf
  <2>3. old \subseteq 1 .. Len(log) /\ old \subseteq 0 .. Len(log)
      BY <1>1 DEF RecordsOf
  <2> HIDE DEF old
  <2>4. CASE old = {}
      BY <1>1, <2>2, <2>4
  <2>5. CASE old # {}
    <3>1. Max(old) \in old /\ \A i \in old : i <= Max(old)
        BY <1>1, <2>3, <2>5, Largest
    <3>2. latest = Max(old)
        BY <2>1, <2>3, <2>5, <3>1
    <3>3. QED BY <1>1, <2>2, <2>3, <3>1, <3>2
  <2>6. QED BY <2>4, <2>5
<1>4. \/ h' = [h EXCEPT !.pc = "list", !.running = TRUE, !.conn = TRUE, !.lastlog = file,
                        !.lasttime = latest]
      \/ h' = [h EXCEPT !.pc = "ended", !.force = TRUE]
    BY DEF start_handling
<1> HIDE DEF latest
<1>5. \/ /\ h' \in Handlers /\ h'.pc = "list" /\ h'.lastlog = file /\ h'.lasttime = latest
      \/ h' \in Handlers /\ h'.pc = "ended"
  <2>1. latest \in Nat
      BY <1>1, <1>3
  <2>2. ASSUME h' = [h EXCEPT !.pc = "list", !.running = TRUE, !.conn = TRUE, !.lastlog = file,
                              !.lasttime = latest]
        PROVE  h' \in Handlers /\ h'.pc = "list" /\ h'.lastlog = file /\ h'.lasttime = latest
      BY <1>1, <2>1, <2>2 DEF Handlers
  <2>3. ASSUME h' = [h EXCEPT !.pc = "ended", !.force = TRUE]
        PROVE  h' \in Handlers /\ h'.pc = "ended"
      BY <1>1, <2>3 DEF Handlers
  <2>4. QED BY <1>4, <2>2, <2>3
<1>6. HandlerTyped' /\ LogInOrder'
    BY <1>1, <1>2, <1>5 DEF HandlerInv, HandlerTyped, LogInOrder
<1>7. ASSUME Works'
      PROVE  /\ ShowsLast(h.ev, hist.seen)' /\ h'.lastlog <= file' /\ ReadBefore(h.lastlog)'
             /\ Listing'
  <2>1. h'.pc = "list" /\ h'.lastlog = file /\ h'.lasttime = latest
      BY <1>5, <1>7 DEF Works
  <2>2. ReadBefore(h.lastlog)'
      BY <1>1, <1>2, <1>3, <2>1 DEF ReadBefore
  <2>3. ShowsLast(h.ev, hist.seen)'
      BY <1>1, <1>2 DEF ShowsLast
  <2>4. QED BY <1>1, <2>1, <2>2, <2>3 DEF Listing
<1>8. h'.pc # "cat"
    BY <1>5
<1>9. QED BY <1>6, <1>7, <1>8 DEF HandlerInv

(* A command that fails takes the thread out of the sample. *)
LEMMA FailsType ==
    ASSUME h \in Handlers, ProcessFails
    PROVE  /\ h' \in Handlers /\ h'.lasttime = h.lasttime /\ h'.ev = h.ev
           /\ h'.lastlog = h.lastlog /\ h'.pc # "cat"
           /\ h'.pc = "dead" \/ (h'.pc = "reconnect" /\ ~h'.again)
<1>1. CASE h' = [h EXCEPT !.pc = "reconnect", !.first = FALSE, !.again = FALSE]
    BY <1>1 DEF Handlers
<1>2. CASE h' = [h EXCEPT !.pc = "dead"]
    BY <1>2 DEF Handlers
<1>3. QED BY <1>1, <1>2 DEF ProcessFails

(* What a sample takes keeps the type, whatever the files.                  *)
LEMMA EventsTyped ==
    ASSUME HandlerTyped, NEW files
    PROVE  process_events(files) \in Handlers
<1>1. Len(log) \in Nat /\ h \in Handlers /\ \A i \in 1 .. Len(log) : log[i] \in LogRecords
    BY DEF HandlerTyped
<1>2. PICK after :
          /\ process_events(files) = after[Len(log)] /\ after[0] = h
          /\ \A i \in 1 .. Len(log) :
                after[i] = IF i \in RecordsOf(files) THEN process_event(after[i - 1], log[i])
                           ELSE after[i - 1]
    BY <1>1, EventByEvent
<1>3. ASSUME NEW s \in Handlers, NEW r \in LogRecords PROVE process_event(s, r) \in Handlers
  <2> DEFINE shown == IF r.kind = "raise" THEN (IF h.first THEN "Initial" ELSE "New")
                      ELSE IF s.ev[r.alarm] = "none" THEN "none" ELSE "Cleared"
             ev == [s.ev EXCEPT ![r.alarm] = shown]
  <2>1. r.alarm \in AlarmIds /\ r.time \in Nat
      BY DEF LogRecords
  <2>2. shown \in {"none", "Initial", "New", "Cleared"}
      OBVIOUS
  <2>3. s.ev \in [AlarmIds -> {"none", "Initial", "New", "Cleared"}]
      BY DEF Handlers
  <2>4. process_event(s, r) = IF r.time <= s.lasttime THEN s
                              ELSE [s EXCEPT !.lasttime = r.time, !.ev = ev]
      BY DEF process_event, Handlers
  <2> HIDE DEF shown
  <2>5. ev \in [AlarmIds -> {"none", "Initial", "New", "Cleared"}]
      BY <2>1, <2>2, <2>3
  <2> HIDE DEF ev
  <2>6. QED BY <2>1, <2>4, <2>5 DEF Handlers
<1> DEFINE Bad == {i \in 0 .. Len(log) : after[i] \notin Handlers}
<1>4. ASSUME Bad # {} PROVE FALSE
  <2>1. Bad \subseteq Nat
      BY <1>1
  <2>2. PICK k \in Bad : \A j \in Bad : k <= j
      BY <1>4, <2>1, Smallest
  <2>3. k \in 0 .. Len(log) /\ after[k] \notin Handlers
      BY <2>2
  <2>4. k \in 1 .. Len(log) /\ k - 1 \in 0 .. Len(log) /\ k - 1 < k
      BY <1>1, <1>2, <2>3
  <2>5. after[k - 1] \in Handlers
      BY <1>1, <2>2, <2>4
  <2>6. QED BY <1>1, <1>2, <1>3, <2>3, <2>4, <2>5
<1>5. Len(log) \in 0 .. Len(log)
    BY <1>1
<1>6. QED BY <1>2, <1>4, <1>5

(* The first listing finds the last log; it reads and forgets nothing.      *)
LEMMA FindKeeps ==
    ASSUME HandlerInv, FindLogs
    PROVE  HandlerInv'
<1>1. /\ log' = log /\ file' = file /\ hist' = hist /\ h \in Handlers /\ h.lastlog \in Nat
      /\ h.pc = "list" /\ HandlerTyped
    BY DEF FindLogs, node, HandlerInv, HandlerTyped, Handlers
<1>2. /\ h' \in Handlers /\ h'.lasttime = h.lasttime /\ h'.ev = h.ev /\ h'.lastlog = h.lastlog
      /\ \/ h'.pc = "active" /\ h'.files = {h.lastlog} /\ h'.bare \subseteq {h.lastlog}
         \/ h'.pc \in {"loop", "dead"} \/ (h'.pc = "reconnect" /\ ~h'.again)
  <2>1. CASE h' = [h EXCEPT !.pc = "active", !.files = {h.lastlog},
                            !.bare = {h.lastlog} \cap {file}]
    <3>1. {h.lastlog} \in SUBSET Nat /\ {h.lastlog} \cap {file} \in SUBSET Nat
        BY <1>1
    <3>2. QED BY <1>1, <2>1, <3>1 DEF Handlers
  <2>2. CASE h' = [h EXCEPT !.pc = "loop", !.first = FALSE]
      BY <1>1, <2>2 DEF Handlers
  <2>3. CASE ProcessFails
      BY <1>1, <2>3, FailsType
  <2>4. QED BY <2>1, <2>2, <2>3 DEF FindLogs
<1>3. Listing'
    BY <1>2 DEF Listing
<1>4. Works' => Works
    BY <1>1 DEF Works
<1>5. QED BY <1>1, <1>2, <1>3, <1>4, HandlerMoves

(* The second listing moves on to the active log: what it leaves unread is  *)
(* in one of the files, or the gap is on record.                            *)
LEMMA LastKeeps ==
    ASSUME HandlerInv, LastLog
    PROVE  HandlerInv'
<1>1. /\ log' = log /\ file' = file /\ Len(log) \in Nat /\ file \in Nat /\ h \in Handlers
      /\ h.lastlog \in Nat /\ h.pc = "active" /\ hist.seen \in Nat /\ HandlerTyped
      /\ DOMAIN hist = {"initial", "broken", "gap", "seen", "from"}
    BY DEF LastLog, node, HandlerInv, HandlerTyped, Handlers
<1>2. ASSUME UNCHANGED hist,
             ProcessFails \/ h' = (IF h.again THEN [h EXCEPT !.pc = "dead"]
                                   ELSE [h EXCEPT !.pc = "reconnect", !.again = TRUE])
      PROVE  HandlerInv'
  <2>1. /\ h' \in Handlers /\ h'.lasttime = h.lasttime /\ h'.ev = h.ev /\ h'.lastlog = h.lastlog
        /\ \/ h'.pc = "dead" \/ (h'.pc = "reconnect" /\ ~h'.again)
           \/ h'.pc = "reconnect" /\ h'.files = h.files /\ h'.bare = h.bare
    <3>1. CASE ProcessFails
        BY <1>1, <3>1, FailsType
    <3>2. CASE h.again /\ h' = [h EXCEPT !.pc = "dead"]
        BY <1>1, <3>2 DEF Handlers
    <3>3. CASE h' = [h EXCEPT !.pc = "reconnect", !.again = TRUE]
        BY <1>1, <3>3 DEF Handlers
    <3>4. QED BY <1>2, <3>1, <3>2, <3>3
  <2>2. Listing => Listing'
      BY <1>1, <2>1 DEF Listing
  <2>3. Works' => Works
      BY <1>1, <1>2 DEF Works
  <2>4. QED BY <1>1, <1>2, <2>1, <2>2, <2>3, HandlerMoves
<1>3. ASSUME h' = [h EXCEPT !.pc = "cat", !.files = log_to_process, !.bare = @ \cup {file},
                            !.lastlog = file, !.again = FALSE],
             hist' = [hist EXCEPT !.gap = @ \/ LeftBehind]
      PROVE  HandlerInv'
  <2>1. /\ h' \in Handlers /\ h'.pc = "cat" /\ h'.files = h.files \cup {file}
        /\ h'.bare = h.bare \cup {file} /\ h'.lastlog = file /\ h'.lasttime = h.lasttime
        /\ h'.ev = h.ev
    <3>1. h.files \cup {file} \in SUBSET Nat /\ h.bare \cup {file} \in SUBSET Nat
        BY <1>1 DEF Handlers
    <3>2. QED BY <1>1, <1>3, <3>1 DEF Handlers, log_to_process
  <2>2. /\ DOMAIN hist' = DOMAIN hist /\ hist'.seen = hist.seen /\ hist'.from = hist.from
        /\ hist'.gap = (hist.gap \/ LeftBehind)
      BY <1>1, <1>3
  <2>3. HandlerTyped' /\ LogInOrder'
      BY <1>1, <2>1, <2>2 DEF HandlerInv, HandlerTyped, LogInOrder
  <2>4. ASSUME Works' PROVE ShowsLast(h.ev, hist.seen)' /\ \E f \in Nat : Listed(f)'
    <3>1. Works /\ ~LeftBehind
        BY <1>1, <2>2, <2>4 DEF Works
    <3>2. /\ ShowsLast(h.ev, hist.seen) /\ h.lastlog <= file /\ ReadBefore(h.lastlog)
          /\ h.files = {h.lastlog} /\ h.bare \subseteq {h.lastlog}
        BY <1>1, <3>1 DEF HandlerInv, Listing
    <3>3. ShowsLast(h.ev, hist.seen)'
        BY <1>1, <2>1, <2>2, <3>2 DEF ShowsLast
    <3>4. PICK f \in Nat : f = h.lastlog
        BY <1>1
    <3>5. ReadBefore(f)'
        BY <1>1, <2>1, <2>2, <3>2, <3>4 DEF ReadBefore
    <3>6. /\ f \in Nat /\ f <= h'.lastlog /\ h'.files = {f, h'.lastlog}
          /\ h'.lastlog \in h'.bare
        BY <1>1, <2>1, <3>2, <3>4
    <3>7. \A i \in (hist.seen + 1) .. Len(log) :
             log[i].file >= file \/ (log[i].file = f /\ f \notin h.bare)
      <4>1. \A i \in (hist.seen + 1) .. Len(log) : log[i].file \in Nat
        <5>1. \A i \in 1 .. Len(log) : log[i] \in LogRecords
            BY <1>1 DEF HandlerTyped
        <5>2. QED BY <1>1, <5>1 DEF LogRecords
      <4>2. \A i \in (hist.seen + 1) .. Len(log) :
               ~(log[i].file < file) \/ (log[i].file = f /\ f \notin h.bare)
          BY <3>1, <3>4 DEF LeftBehind
      <4>3. QED BY <1>1, <4>1, <4>2
    <3>8. \A i \in (hist.seen + 1) .. Len(log) :
             log[i].file >= file \/ (log[i].file = f /\ f \notin h'.bare)
        BY <1>1, <2>1, <3>7
    <3>9. Listed(f)'
        BY <1>1, <2>1, <2>2, <3>5, <3>6, <3>8 DEF Listed
    <3>10. QED BY <3>3, <3>9
  <2>5. Listing'
      BY <2>1 DEF Listing
  <2>6. QED BY <1>1, <2>1, <2>3, <2>4, <2>5 DEF HandlerInv
<1>4. QED BY <1>2, <1>3 DEF LastLog

(* The reading: the records not yet read that the files hold are taken in  *)
(* order, and what the rotation since the listing left is in a later file.  *)
LEMMA CatKeeps ==
    ASSUME HandlerInv, CatLogs
    PROVE  HandlerInv'
<1>1. /\ log' = log /\ file' = file /\ Len(log) \in Nat /\ file \in Nat /\ h \in Handlers
      /\ h.lastlog \in Nat /\ h.lasttime \in Nat /\ h.pc = "cat"
      /\ DOMAIN hist = {"initial", "broken", "gap", "seen", "from"}
      /\ hist.seen \in 0 .. Len(log) /\ hist.from \in 0 .. hist.seen
      /\ HandlerTyped /\ LogInOrder
    BY DEF CatLogs, node, HandlerInv, HandlerTyped, Handlers
<1>2. \A i \in 1 .. Len(log) : log[i].file \in Nat /\ log[i].file <= file /\ log[i].time = i
  <2>1. \A i \in 1 .. Len(log) : log[i] \in LogRecords
      BY <1>1 DEF HandlerTyped
  <2>2. QED BY <1>1, <2>1 DEF LogRecords, LogInOrder
<1>3. ASSUME ProcessFails, hist' = [hist EXCEPT !.gap = @ \/ h.files # {h.lastlog}]
      PROVE  HandlerInv'
  <2>1. /\ h' \in Handlers /\ h'.lasttime = h.lasttime /\ h'.ev = h.ev /\ h'.lastlog = h.lastlog
        /\ h'.pc # "cat" /\ (h'.pc = "dead" \/ (h'.pc = "reconnect" /\ ~h'.again))
      BY <1>1, <1>3, FailsType
  <2>2. /\ DOMAIN hist' = DOMAIN hist /\ hist'.seen = hist.seen /\ hist'.from = hist.from
        /\ hist'.gap = (hist.gap \/ h.files # {h.lastlog})
      BY <1>1, <1>3
  <2>3. Works' => Works
      BY <1>1, <2>2 DEF Works
  <2>4. ASSUME Works' PROVE ReadBefore(h.lastlog)
    <3>1. Works /\ h.files = {h.lastlog}
        BY <2>2, <2>3, <2>4 DEF Works
    <3>2. \E f \in Nat : Listed(f)
        BY <1>1, <3>1 DEF HandlerInv
    <3>3. QED BY <3>1, <3>2 DEF Listed
  <2>5. Listing'
      BY <2>1 DEF Listing
  <2>6. QED BY <1>1, <2>1, <2>2, <2>3, <2>4, <2>5, HandlerMoves
<1>4. ASSUME h' = [process_events(Readable) EXCEPT !.pc = "loop", !.first = FALSE, !.files = {}],
             hist' = [hist EXCEPT !.seen =
                        IF file = h.lastlog THEN Len(log)
                        ELSE Max({@} \cup {i \in 1 .. Len(log) : log[i].file < h.lastlog})]
      PROVE  HandlerInv'
  <2> DEFINE older == {hist.seen} \cup {i \in 1 .. Len(log) : log[i].file < h.lastlog}
             seen == IF file = h.lastlog THEN Len(log) ELSE Max(older)
             s == process_events(Readable)
  <2>1. /\ hist'.seen = seen /\ hist'.from = hist.from /\ hist'.gap = hist.gap
        /\ DOMAIN hist' = {"initial", "broken", "gap", "seen", "from"}
      BY <1>1, <1>4
  <2>2. Max(older) \in older /\ \A i \in older : i <= Max(older)
    <3>1. older \subseteq 0 .. Len(log) /\ older # {}
        BY <1>1
    <3> HIDE DEF older
    <3>2. QED BY <1>1, <3>1, Largest
  <2>3. seen \in hist.seen .. Len(log)
      BY <1>1, <2>2
  <2>4. s \in Handlers
      BY <1>1, EventsTyped
  <2>5. h' \in Handlers /\ h'.pc = "loop" /\ h'.lasttime = s.lasttime /\ h'.ev = s.ev
        /\ h'.lastlog = s.lastlog
    <3> HIDE DEF s
    <3>1. h' = [s EXCEPT !.pc = "loop", !.first = FALSE, !.files = {}]
        BY <1>4 DEF s
    <3>2. QED BY <2>4, <3>1 DEF Handlers
  <2> HIDE DEF seen, s
  <2>6. HandlerTyped' /\ LogInOrder'
      BY <1>1, <2>1, <2>3, <2>5 DEF HandlerTyped, LogInOrder
  <2>7. ASSUME Works' PROVE ShowsLast(h.ev, hist.seen)' /\ h'.lastlog <= file' /\ ReadBefore(h.lastlog)'
                            /\ Listing'
    <3>1. Works
        BY <1>1, <2>1, <2>7 DEF Works
    <3>2. ShowsLast(h.ev, hist.seen) /\ h.lastlog <= file
        BY <1>1, <3>1 DEF HandlerInv
    <3>3. PICK f \in Nat : Listed(f)
        BY <1>1, <3>1 DEF HandlerInv
    <3>4. /\ f <= h.lastlog /\ h.files = {f, h.lastlog} /\ h.lastlog \in h.bare
          /\ h.lasttime <= hist.seen
          /\ \A i \in 1 .. Len(log) :
                /\ i <= hist.seen => i <= h.lasttime \/ log[i].file < f
                /\ i > hist.seen => log[i].file >= f
                /\ i > hist.seen =>
                       log[i].file >= h.lastlog \/ (log[i].file = f /\ f \notin h.bare)
        BY <1>1, <3>3 DEF Listed, ReadBefore
    <3>5. \A i \in 1 .. Len(log) : i > hist.seen => (i <= seen <=> i \in RecordsOf(Readable))
      <4>1. CASE file = h.lastlog
        <5>1. /\ seen = Len(log) /\ h.lastlog \in Readable
              /\ f \notin h.bare => f \in Readable
            BY <3>4, <4>1 DEF Readable, seen
        <5>2. QED BY <1>1, <1>2, <3>4, <4>1, <5>1 DEF RecordsOf
      <4>2. CASE file # h.lastlog
        <5>1. Readable = {f} \ h.bare /\ seen = Max(older)
          <6>1. f = file => f = h.lastlog
              BY <1>1, <3>2, <3>4
          <6>2. QED BY <3>4, <4>2, <6>1 DEF Readable, seen
        <5> SUFFICES ASSUME NEW i \in 1 .. Len(log), i > hist.seen
                     PROVE  i <= seen <=> i \in RecordsOf(Readable)
            OBVIOUS
        <5>2. ASSUME i <= seen PROVE i \in RecordsOf(Readable)
          <6>1. seen \in 1 .. Len(log) /\ log[seen].file < h.lastlog
              BY <1>1, <2>2, <5>1, <5>2
          <6>2. log[i].file <= log[seen].file
              BY <1>1, <5>2, <6>1 DEF LogInOrder
          <6>3. log[i].file = f /\ f \notin h.bare
              BY <1>1, <1>2, <3>4, <6>1, <6>2
          <6>4. QED BY <5>1, <6>3 DEF RecordsOf
        <5>3. ASSUME i \in RecordsOf(Readable) PROVE i <= seen
          <6>1. log[i].file = f /\ f < h.lastlog
              BY <1>1, <3>4, <5>1, <5>3 DEF RecordsOf
          <6>2. i \in older
              BY <6>1
          <6>3. QED BY <2>2, <5>1, <6>2
        <5>4. QED BY <5>2, <5>3
      <4>3. QED BY <4>1, <4>2
    <3>6. \A i \in RecordsOf(Readable) : i \in 1 .. Len(log) /\ log[i].file >= f
      <4>1. Readable \subseteq {f, h.lastlog}
          BY <3>4 DEF Readable
      <4>2. \A i \in RecordsOf(Readable) : i \in 1 .. Len(log) /\ log[i].file \in {f, h.lastlog}
          BY <4>1 DEF RecordsOf
      <4>3. QED BY <1>1, <3>4, <4>2
    <3>7. /\ \A i \in RecordsOf(Readable) : i <= seen /\ (i <= hist.seen => i <= h.lasttime)
          /\ (hist.seen + 1) .. seen \subseteq RecordsOf(Readable)
      <4>1. ASSUME NEW i \in RecordsOf(Readable) PROVE i <= seen /\ (i <= hist.seen => i <= h.lasttime)
        <5>1. i \in 1 .. Len(log) /\ log[i].file >= f /\ log[i].file \in Nat
            BY <1>2, <3>6
        <5>2. QED BY <1>1, <2>3, <3>4, <3>5, <5>1
      <4>2. QED BY <1>1, <2>3, <3>5, <4>1
    <3>8. /\ s.lastlog = h.lastlog /\ h.lasttime <= s.lasttime
          /\ s.lasttime <= seen /\ (seen > hist.seen => s.lasttime = seen)
          /\ ShowsLast(s.ev, seen)
        BY <1>1, <2>3, <3>2, <3>4, <3>7, ReadsOn DEF s
    <3>9. ShowsLast(h.ev, hist.seen)'
        BY <1>1, <2>1, <2>5, <3>8 DEF ShowsLast
    <3>10. \A i \in 1 .. Len(log) :
              IF i <= seen THEN i <= s.lasttime \/ log[i].file < h.lastlog
              ELSE log[i].file >= h.lastlog
      <4> SUFFICES ASSUME NEW i \in 1 .. Len(log)
                   PROVE  IF i <= seen THEN i <= s.lasttime \/ log[i].file < h.lastlog
                          ELSE log[i].file >= h.lastlog
          OBVIOUS
      <4>1. s.lasttime \in Nat /\ log[i].file \in Nat /\ seen \in Nat
          BY <1>1, <1>2, <2>3, <2>4 DEF Handlers
      <4>2. CASE i <= hist.seen
          BY <1>1, <2>3, <3>4, <3>8, <4>1, <4>2
      <4>3. CASE i > hist.seen /\ i <= seen
          BY <1>1, <3>8, <4>1, <4>3
      <4>4. CASE i > seen
        <5>1. seen = Max(older)
            BY <1>1, <4>4 DEF seen
        <5>2. i \notin older
          <6>1. i \in older => i <= seen
              BY <2>2, <5>1
          <6>2. i \in Nat /\ ~(i <= seen)
              BY <1>1, <4>1, <4>4
          <6>3. QED BY <6>1, <6>2
        <5>3. QED BY <1>1, <1>2, <4>1, <4>4, <5>2
      <4>5. QED BY <1>1, <4>1, <4>2, <4>3, <4>4
    <3>11. ReadBefore(h.lastlog)'
        BY <1>1, <2>1, <2>5, <3>2, <3>8, <3>10 DEF ReadBefore
    <3>12. Listing'
        BY <2>5 DEF Listing
    <3>13. QED BY <1>1, <2>5, <3>12, <3>2, <3>8, <3>9, <3>11
  <2>8. QED BY <2>5, <2>6, <2>7 DEF HandlerInv
<1>5. QED BY <1>3, <1>4 DEF CatLogs

(* Between a sample and the next, reconnections and shutdown.               *)
LEMMA LoopKeeps ==
    ASSUME HandlerInv, HandlerLoops \/ HandlerReconnects \/ WaitStatusOK \/ HandlerShutdown
    PROVE  HandlerInv'
<1>1. /\ log' = log /\ file' = file /\ hist' = hist /\ h \in Handlers
    BY DEF HandlerLoops, HandlerReconnects, WaitStatusOK, HandlerShutdown, node, HandlerInv,
           HandlerTyped
<1> DEFINE Only(t, s) == /\ t \in Handlers /\ t.lasttime = s.lasttime /\ t.ev = s.ev
                         /\ t.lastlog = s.lastlog /\ t.files = s.files /\ t.bare = s.bare
                         /\ t.again = s.again
<1>2. Only(ShutDown(h), h) /\ ShutDown(h).pc = h.pc
  <2>1. CASE h.conn
      BY <1>1, <2>1 DEF ShutDown, Handlers
  <2>2. CASE ~h.conn
      BY <1>1, <2>2 DEF ShutDown, Handlers
  <2>3. QED BY <2>1, <2>2
<1>3. CASE HandlerLoops
  <2>1. Only(h', h) /\ h.pc = "loop" /\ h'.pc \in {"list", "ended"}
      BY <1>1, <1>3 DEF HandlerLoops, Handlers
  <2>2. QED BY <1>1, <2>1, HandlerMoves DEF Works, Listing
<1>8. \A s \in Handlers, done \in BOOLEAN :
          /\ Only(GoesBack(s, done), s)
          /\ GoesBack(s, done).pc \in {"loop", "dead"} \cup (IF h.again THEN {"active"} ELSE {})
    BY <1>1 DEF GoesBack, Handlers
<1>9. Listing /\ h.pc \in {"reconnect", "status"} /\ Only(h', h)
      /\ (h'.pc = "active" => h.again) => Listing'
    BY DEF Listing
<1>4. CASE HandlerReconnects
  <2>1. /\ Only(h', h) /\ h.pc = "reconnect"
        /\ h'.pc \in {"loop", "status", "reconnect", "dead", "active"}
        /\ h'.pc = "active" => h.again
    <3>1. /\ h.pc = "reconnect"
          /\ h' = GoesBack(h, FALSE) \/ h' = [h EXCEPT !.pc = "status"] \/ h' = ShutDown(h)
        BY <1>4 DEF HandlerReconnects
    <3>2. CASE h' = GoesBack(h, FALSE)
        BY <1>1, <1>8, <3>1, <3>2
    <3>3. CASE h' = [h EXCEPT !.pc = "status"]
        BY <1>1, <3>1, <3>3 DEF Handlers
    <3>4. QED BY <1>2, <3>1, <3>2, <3>3
  <2>2. QED BY <1>1, <1>9, <2>1, HandlerMoves DEF Works
<1>5. CASE WaitStatusOK
  <2>1. /\ Only(h', h) /\ h.pc = "status" /\ h'.pc \in {"loop", "status", "dead", "active"}
        /\ h'.pc = "active" => h.again
    <3>1. \/ h' = GoesBack(h, FALSE) \/ h' = GoesBack([h EXCEPT !.running = TRUE], TRUE)
          \/ h' = ShutDown(h)
        BY <1>5 DEF WaitStatusOK
    <3>2. h.pc = "status"
        BY <1>5 DEF WaitStatusOK
    <3>3. CASE h' = GoesBack(h, FALSE)
        BY <1>1, <1>8, <3>2, <3>3
    <3>4. CASE h' = GoesBack([h EXCEPT !.running = TRUE], TRUE)
      <4> DEFINE s == [h EXCEPT !.running = TRUE]
      <4>1. s \in Handlers /\ Only(s, h)
          BY <1>1 DEF Handlers
      <4> HIDE DEF s
      <4>2. Only(h', s) /\ h'.pc \in {"loop", "dead"} \cup (IF h.again THEN {"active"} ELSE {})
          BY <1>8, <3>4, <4>1 DEF s
      <4>3. QED BY <3>2, <4>1, <4>2
    <3>5. QED BY <1>2, <3>1, <3>2, <3>3, <3>4
  <2>2. QED BY <1>1, <1>9, <2>1, HandlerMoves DEF Works
<1>6. CASE HandlerShutdown
  <2>1. Only(h', h) /\ h'.pc = h.pc
    <3>1. h.conn \in BOOLEAN
        BY <1>1 DEF Handlers
    <3>2. \/ h' = [ShutDown(h) EXCEPT !.conn = h.conn] \/ h' = [h EXCEPT !.conn = FALSE]
        BY <1>6 DEF HandlerShutdown
    <3>3. \A s \in Handlers, b \in BOOLEAN : Only([s EXCEPT !.conn = b], s)
                                             /\ [s EXCEPT !.conn = b].pc = s.pc
        BY DEF Handlers
    <3> HIDE DEF Only
    <3>4. ShutDown(h) \in Handlers
        BY <1>2 DEF Only
    <3>5. Only([ShutDown(h) EXCEPT !.conn = h.conn], h)
        BY <1>2, <3>1, <3>3, <3>4 DEF Only
    <3>6. QED BY <1>1, <1>2, <3>1, <3>2, <3>3, <3>4, <3>5
  <2>2. QED BY <1>1, <2>1, HandlerMoves DEF Works, Listing
<1>7. QED BY <1>3, <1>4, <1>5, <1>6

(* AlarmLogEventHandler is always at a point of its loop as HandlerInv     *)
(* says.                                                                   *)
THEOREM HandlerInvHolds == AlarmsSpec => []HandlerInv
<1>1. AlarmsInit => HandlerInv
  <2> SUFFICES ASSUME AlarmsInit PROVE HandlerInv
      OBVIOUS
  <2>1. /\ h = NoHandler /\ log = <<>> /\ file = 1
        /\ hist = [initial |-> {}, broken |-> FALSE, gap |-> FALSE, seen |-> 0, from |-> 0]
      BY DEF AlarmsInit
  <2>2. h \in Handlers /\ h.pc = "off"
      BY <2>1 DEF NoHandler, Handlers
  <2>3. QED BY <2>1, <2>2 DEF HandlerInv, HandlerTyped, LogInOrder, Works
<1>2. ASSUME HandlerInv, [AlarmsNext]_alarmsVars PROVE HandlerInv'
  <2>1. CASE UNCHANGED alarmsVars
      BY <1>2, <2>1, HandlerMoves
         DEF alarmsVars, node, HandlerInv, HandlerTyped, Works, Listing
  <2>2. CASE NodeStep
      BY <1>2, <2>2, NodeKeepsHandler
  <2>3. CASE start_monitoring \/ MonitorStep \/ MonitorShutdown
      BY <1>2, <2>3, MonitorKeepsHandler
  <2>4. CASE start_handling
      BY <1>2, <2>4, StartHandling
  <2>5. CASE HandlerStep \/ HandlerShutdown
      BY <1>2, <2>5, FindKeeps, LastKeeps, CatKeeps, LoopKeeps DEF HandlerStep
  <2>6. QED BY <1>2, <2>1, <2>2, <2>3, <2>4, <2>5 DEF AlarmsNext
<1>3. QED BY <1>1, <1>2, PTL DEF AlarmsSpec

(* For any set of alarms, any number of files and of outages: after every  *)
(* sample the state the handler has of an alarm is that of the last record *)
(* of that alarm that was read, unless a file was left behind unread.       *)
THEOREM HandlerLosesNothing == AlarmsSpec => []NoEventLost
<1>1. ASSUME HandlerInv, h.pc = "loop", ~hist.gap, NEW a \in AlarmIds
      PROVE  LET own == {i \in (hist.from + 1) .. hist.seen : log[i].alarm = a} IN
             own # {} =>
                 LET i == CHOOSE j \in own : \A k \in own : k <= j IN
                 IF log[i].kind = "raise" THEN h.ev[a] \in {"Initial", "New"}
                                          ELSE h.ev[a] \in {"none", "Cleared"}
  <2> DEFINE own == {i \in (hist.from + 1) .. hist.seen : log[i].alarm = a}
             i == CHOOSE j \in own : \A k \in own : k <= j
  <2>1. /\ ShowsLast(h.ev, hist.seen) /\ hist.seen \in Nat /\ hist.from \in Nat
        /\ own \subseteq 0 .. hist.seen
      BY <1>1 DEF HandlerInv, HandlerTyped, Works
  <2> SUFFICES ASSUME own # {}
               PROVE  IF log[i].kind = "raise" THEN h.ev[a] \in {"Initial", "New"}
                                               ELSE h.ev[a] \in {"none", "Cleared"}
      OBVIOUS
  <2> HIDE DEF own
  <2>2. Max(own) \in own /\ \A k \in own : k <= Max(own)
      BY <2>1, Largest
  <2>3. i \in own /\ \A k \in own : k <= i
      BY <2>2, Zenon
  <2> HIDE DEF i
  <2>4. /\ i \in (hist.from + 1) .. hist.seen /\ log[i].alarm = a
        /\ \A k \in (i + 1) .. hist.seen : log[k].alarm # a
    <3>1. i \in (hist.from + 1) .. hist.seen /\ log[i].alarm = a
        BY <2>3 DEF own
    <3>2. ASSUME NEW k \in (i + 1) .. hist.seen PROVE log[k].alarm # a
      <4>1. k \in (hist.from + 1) .. hist.seen /\ ~(k <= i)
          BY <2>1, <3>1
      <4>2. QED BY <2>3, <4>1 DEF own
    <3>3. QED BY <3>1, <3>2
  <2>5. QED BY <2>1, <2>4 DEF ShowsLast, Shows
<1>2. HandlerInv => NoEventLost
    BY <1>1 DEF NoEventLost
<1>3. QED BY <1>2, HandlerInvHolds, PTL

-----------------------------------------------------------------------------
(* Operations on a CBA node (CbaNode). An operation is a list of lines, and   *)
(* what holds between two of them is said of the lines still to come: which   *)
(* edits are followed by their commit, which polls by no request.             *)
\* A program is a list of lines.
IsProgram(p) == \E S : p \in Seq(S)

\* After line n comes a line do before any of the lines stops.
Before(prog, n, do, stops) ==
    \E j \in (n + 1) .. Len(prog) :
        prog[j].do = do /\ \A k \in (n + 1) .. (j - 1) : prog[k].do \notin stops

\* Lines that may replace the session, and the edits pending in it.
Replacing == {"open", "close", "poll", "poll_restore"}
\* After line n: a commit, an edit, in the transaction that line n is in.
Closing(prog, n) == Before(prog, n, "commit", {"configure"})
Editing(prog, n) == Before(prog, n, "edit", {"configure"})
\* What is pending after line n is committed before a command sets something else,
\* in the same transaction, or at least in the same session.
Held(prog, n) == \/ Before(prog, n, "commit", {"put", "configure"})
                 \/ Before(prog, n, "commit", {"put"} \cup Replacing)

\* The transactions of a program: an edit is held, a session replaced in the middle of
\* one still meets its commit, and every commit is looked at.
Parts(prog) ==
    \A i \in 1 .. Len(prog) :
        /\ prog[i].do = "edit" => Held(prog, i)
        /\ prog[i].do \in Replacing \cup {"commit"} /\ Editing(prog, i) => Closing(prog, i)
        /\ prog[i].do = "commit" => prog[i].checked

Whole(prog) == Parts(prog) /\ (Editing(prog, 0) => Closing(prog, 0))

Pair(line) == <<line.attr, line.val>>
\* No line sets the attribute of g; the last line that does sets g.
Untouched(prog, g) == \A k \in Sets(prog) : prog[k].attr # g[1]
LastSet(prog, g) ==
    \E i \in Sets(prog) : Pair(prog[i]) = g /\ \A k \in Sets(prog) : k > i => prog[k].attr # g[1]

\* Lines that are there, polls before any request, answers that are looked at.
Has(prog, do) == \E i \in 1 .. Len(prog) : prog[i].do = do
Awaits(prog) == Before(prog, 0, "poll", {"request"})
Sent(prog, edits) == \A i \in Sets(prog) : Pair(prog[i]) \in edits
AllLooked(prog) == \A i \in 1 .. Len(prog) : prog[i].checked
Looked(prog) == \A i \in 1 .. Len(prog) : prog[i].do = "request" => prog[i].checked

\* run_CBA_restore_backup: after the wait for the broken connection nothing is sent.
Quiet(prog) == ~Has(prog, "open") /\ ~Has(prog, "request")
Reloads(prog) ==
    /\ prog # <<>> => prog[Len(prog)].do = "wait_reload"
    /\ ~Has(prog, "reboot")
    /\ \A i \in 1 .. Len(prog) : prog[i].do = "wait_broken" =>
          \A k \in i .. Len(prog) : prog[k].do \notin {"open", "request"}

\* What the lines of every operation have in common (OperationsSound).
WellFormed(o) ==
    /\ Whole(o.prog) /\ Sent(o.prog, o.edits)
    /\ \A g \in o.goal : LastSet(o.prog, g)
    /\ o.name \in Strict => AllLooked(o.prog)
    /\ ~Awaits(o.prog)
    /\ o.name \notin Unlooked => Looked(o.prog)
    /\ o.name = "restore_backup" =>
          /\ Reloads(o.prog) /\ o.prog # <<>>
          /\ Has(o.prog, "open") /\ Has(o.prog, "wait_broken")

-----------------------------------------------------------------------------
\* The lines of a program once its first line is done.
LEMMA TailLines ==
    ASSUME NEW p, IsProgram(p), p # <<>>
    PROVE  /\ IsProgram(Tail(p)) /\ Len(p) \in Nat \ {0} /\ Len(Tail(p)) = Len(p) - 1
           /\ Head(p) = p[1]
           /\ \A i \in 1 .. Len(p) - 1 : Tail(p)[i] = p[i + 1]
           /\ Tail(p) = <<>> <=> Len(p) = 1
<1>1. Len(p) \in Nat \ {0} /\ Len(Tail(p)) = Len(p) - 1 /\ IsProgram(Tail(p)) /\ Head(p) = p[1]
    BY DEF IsProgram
<1>2. \A i \in 1 .. Len(p) - 1 : Tail(p)[i] = p[i + 1]
    BY <1>1 DEF IsProgram
<1>3. Tail(p) = <<>> <=> Len(p) = 1
  <2>1. PICK S : p \in Seq(S)
      BY DEF IsProgram
  <2>2. Tail(p) \in Seq(S)
      BY <2>1
  <2>3. \A s \in Seq(S) : s = <<>> <=> Len(s) = 0
      OBVIOUS
  <2>4. QED BY <1>1, <2>2, <2>3
<1>4. QED BY <1>1, <1>2, <1>3

\* Before, seen from the second line.
LEMMA BeforeTail ==
    ASSUME NEW p, IsProgram(p), p # <<>>, NEW n \in Nat, NEW do, NEW stops
    PROVE  Before(Tail(p), n, do, stops) <=> Before(p, n + 1, do, stops)
<1> USE TailLines
<1>1. ASSUME Before(Tail(p), n, do, stops) PROVE Before(p, n + 1, do, stops)
  <2>1. PICK j \in (n + 1) .. Len(Tail(p)) :
           Tail(p)[j].do = do /\ \A k \in (n + 1) .. (j - 1) : Tail(p)[k].do \notin stops
      BY <1>1 DEF Before
  <2>2. j + 1 \in (n + 2) .. Len(p) /\ p[j + 1].do = do
      BY <2>1
  <2>3. ASSUME NEW k \in (n + 2) .. j PROVE p[k].do \notin stops
    <3>1. k - 1 \in (n + 1) .. (j - 1) /\ Tail(p)[k - 1] = p[k]
        BY <2>1
    <3>2. QED BY <2>1, <3>1
  <2>4. QED BY <2>2, <2>3 DEF Before
<1>2. ASSUME Before(p, n + 1, do, stops) PROVE Before(Tail(p), n, do, stops)
  <2>1. PICK j \in (n + 2) .. Len(p) :
           p[j].do = do /\ \A k \in (n + 2) .. (j - 1) : p[k].do \notin stops
      BY <1>2 DEF Before
  <2>2. j - 1 \in (n + 1) .. Len(Tail(p)) /\ Tail(p)[j - 1].do = do
    <3>1. j - 1 \in 1 .. Len(p) - 1 /\ (j - 1) + 1 = j
        BY <2>1
    <3>2. Tail(p)[j - 1] = p[j]
        BY <3>1
    <3>3. QED BY <2>1, <3>1, <3>2
  <2>3. ASSUME NEW k \in (n + 1) .. (j - 2) PROVE Tail(p)[k].do \notin stops
    <3>1. k + 1 \in (n + 2) .. (j - 1) /\ Tail(p)[k] = p[k + 1]
        BY <2>1
    <3>2. QED BY <2>1, <3>1
  <2>4. (j - 1) - 1 = j - 2
      BY <2>1
  <2>5. QED BY <2>2, <2>3, <2>4 DEF Before
<1>3. QED BY <1>1, <1>2

\* Before, from one line to the next.
LEMMA BeforeNext ==
    ASSUME NEW p, IsProgram(p), NEW n \in Nat, n < Len(p), NEW do, NEW stops
    PROVE  Before(p, n, do, stops) <=>
              p[n + 1].do = do \/ (p[n + 1].do \notin stops /\ Before(p, n + 1, do, stops))
<1>0. Len(p) \in Nat
    BY DEF IsProgram
<1>1. ASSUME Before(p, n, do, stops)
      PROVE  p[n + 1].do = do \/ (p[n + 1].do \notin stops /\ Before(p, n + 1, do, stops))
  <2>1. PICK j \in (n + 1) .. Len(p) :
           p[j].do = do /\ \A k \in (n + 1) .. (j - 1) : p[k].do \notin stops
      BY <1>1 DEF Before
  <2>2. CASE j = n + 1
      BY <2>1, <2>2
  <2>3. CASE j # n + 1
    <3>1. j \in (n + 2) .. Len(p) /\ n + 1 \in (n + 1) .. (j - 1)
             /\ (n + 2) .. (j - 1) \subseteq (n + 1) .. (j - 1) /\ (n + 1) + 1 = n + 2
        BY <2>3, <1>0
    <3>2. QED BY <2>1, <3>1 DEF Before
  <2>4. QED BY <2>2, <2>3
<1>2. ASSUME p[n + 1].do = do PROVE Before(p, n, do, stops)
  <2>1. n + 1 \in (n + 1) .. Len(p) /\ \A k \in (n + 1) .. ((n + 1) - 1) : FALSE
      BY <1>0
  <2>2. QED BY <1>2, <2>1 DEF Before
<1>3. ASSUME p[n + 1].do \notin stops, Before(p, n + 1, do, stops) PROVE Before(p, n, do, stops)
  <2>1. PICK j \in (n + 2) .. Len(p) :
           p[j].do = do /\ \A k \in (n + 2) .. (j - 1) : p[k].do \notin stops
      BY <1>3, <1>0 DEF Before
  <2>2. \A k \in (n + 1) .. (j - 1) : k = n + 1 \/ k \in (n + 2) .. (j - 1)
      BY <2>1, <1>0
  <2>3. j \in (n + 1) .. Len(p)
      BY <1>0
  <2>4. QED BY <1>3, <2>1, <2>2, <2>3 DEF Before
<1>4. QED BY <1>1, <1>2, <1>3

\* What the first line says of a program and of the rest of it.
LEMMA BeforeHead ==
    ASSUME NEW p, IsProgram(p), p # <<>>, NEW do, NEW stops
    PROVE  Before(p, 0, do, stops) <=>
              p[1].do = do \/ (p[1].do \notin stops /\ Before(Tail(p), 0, do, stops))
<1>1. Len(p) \in Nat /\ 0 < Len(p)
    BY TailLines
<1>2. Before(Tail(p), 0, do, stops) <=> Before(p, 1, do, stops)
    BY BeforeTail
<1>3. QED BY <1>1, <1>2, BeforeNext

\* No line comes in a program without lines.
LEMMA BeforeNone ==
    ASSUME NEW do, NEW stops
    PROVE  ~Before(<<>>, 0, do, stops)
BY DEF Before

\* What a program still does, with its first line and without.
LEMMA HasHead ==
    ASSUME NEW p, IsProgram(p), p # <<>>, NEW do
    PROVE  Has(p, do) <=> p[1].do = do \/ Has(Tail(p), do)
<1> USE TailLines
<1>1. ASSUME Has(p, do) PROVE p[1].do = do \/ Has(Tail(p), do)
  <2>1. PICK i \in 1 .. Len(p) : p[i].do = do
      BY <1>1 DEF Has
  <2>2. i = 1 \/ (i - 1 \in 1 .. Len(Tail(p)) /\ Tail(p)[i - 1] = p[i])
      BY <2>1
  <2>3. QED BY <2>1, <2>2 DEF Has
<1>2. ASSUME Has(Tail(p), do) PROVE Has(p, do)
  <2>1. PICK i \in 1 .. Len(Tail(p)) : Tail(p)[i].do = do
      BY <1>2 DEF Has
  <2>2. i + 1 \in 1 .. Len(p) /\ Tail(p)[i] = p[i + 1]
      BY <2>1
  <2>3. QED BY <2>1, <2>2 DEF Has
<1>3. p[1].do = do => Has(p, do)
    BY DEF Has
<1>4. QED BY <1>1, <1>2, <1>3

\* The lines that set something, with the first line and without.
LEMMA SetsTail ==
    ASSUME NEW p, IsProgram(p), p # <<>>
    PROVE  /\ \A i \in Sets(Tail(p)) : i + 1 \in Sets(p) /\ i \in Nat \ {0} /\ Tail(p)[i] = p[i + 1]
           /\ \A i \in Sets(p) : i = 1 \/ (i \in Nat /\ i > 1 /\ i - 1 \in Sets(Tail(p)) /\ Tail(p)[i - 1] = p[i])
           /\ 1 \in Sets(p) <=> p[1].do \in {"edit", "put"}
<1> USE TailLines
<1>1. \A i \in Sets(Tail(p)) : i + 1 \in Sets(p) /\ i \in Nat \ {0} /\ Tail(p)[i] = p[i + 1]
    BY DEF Sets
<1>2. ASSUME NEW i \in Sets(p), i # 1
      PROVE  i \in Nat /\ i > 1 /\ i - 1 \in Sets(Tail(p)) /\ Tail(p)[i - 1] = p[i]
  <2>1. i \in 1 .. Len(p) /\ p[i].do \in {"edit", "put"}
      BY DEF Sets
  <2>2. i - 1 \in 1 .. Len(Tail(p)) /\ Tail(p)[i - 1] = p[i]
      BY <1>2, <2>1
  <2>3. QED BY <1>2, <2>1, <2>2 DEF Sets
<1>3. 1 \in Sets(p) <=> p[1].do \in {"edit", "put"}
    BY DEF Sets
<1>4. QED BY <1>1, <1>2, <1>3

\* The rest of a program keeps its transactions whole.
LEMMA PartsTail ==
    ASSUME NEW p, IsProgram(p), p # <<>>, Parts(p)
    PROVE  /\ Parts(Tail(p))
           /\ p[1].do = "edit" => Held(Tail(p), 0)
           /\ p[1].do \in Replacing \cup {"commit"} /\ Editing(Tail(p), 0) => Closing(Tail(p), 0)
           /\ p[1].do = "commit" => p[1].checked
<1> USE TailLines
<1>1. \A n \in Nat : /\ Held(Tail(p), n) <=> Held(p, n + 1)
                     /\ Editing(Tail(p), n) <=> Editing(p, n + 1)
                     /\ Closing(Tail(p), n) <=> Closing(p, n + 1)
    BY BeforeTail DEF Held, Editing, Closing
<1>2. ASSUME NEW i \in 1 .. Len(Tail(p))
      PROVE  /\ Tail(p)[i].do = "edit" => Held(Tail(p), i)
             /\ Tail(p)[i].do \in Replacing \cup {"commit"} /\ Editing(Tail(p), i) => Closing(Tail(p), i)
             /\ Tail(p)[i].do = "commit" => Tail(p)[i].checked
  <2>1. i + 1 \in 1 .. Len(p) /\ Tail(p)[i] = p[i + 1] /\ i \in Nat
      OBVIOUS
  <2>2. QED BY <1>1, <2>1 DEF Parts
<1>3. Parts(Tail(p))
    BY <1>2 DEF Parts
<1>4. 1 \in 1 .. Len(p) /\ 0 + 1 = 1 /\ 0 \in Nat
    OBVIOUS
<1>5. /\ p[1].do = "edit" => Held(p, 1)
      /\ p[1].do \in Replacing \cup {"commit"} /\ Editing(p, 1) => Closing(p, 1)
      /\ p[1].do = "commit" => p[1].checked
    BY <1>4 DEF Parts
<1>6. QED BY <1>1, <1>3, <1>4, <1>5

\* Pending edits keep the commit they wait for while other lines are done.
LEMMA HeldTail ==
    ASSUME NEW p, IsProgram(p), p # <<>>, Held(p, 0)
    PROVE  /\ p[1].do # "commit" => Held(Tail(p), 0)
           /\ p[1].do # "put"
           /\ p[1].do \in Replacing => Closing(Tail(p), 0) /\ Closing(p, 0)
<1>1. \A stops : Before(p, 0, "commit", stops) <=>
            p[1].do = "commit" \/ (p[1].do \notin stops /\ Before(Tail(p), 0, "commit", stops))
    BY BeforeHead
<1>2. /\ p[1].do # "commit" => Held(Tail(p), 0)
      /\ p[1].do # "put"
    BY <1>1 DEF Held
<1>3. ASSUME p[1].do \in Replacing PROVE Closing(Tail(p), 0) /\ Closing(p, 0)
  <2>1. p[1].do # "commit" /\ p[1].do \notin {"configure"} /\ p[1].do \in {"put"} \cup Replacing
      BY <1>3 DEF Replacing
  <2>2. Before(Tail(p), 0, "commit", {"put", "configure"})
      BY <1>1, <2>1 DEF Held
  <2>3. Closing(Tail(p), 0)
      BY <2>2 DEF Closing, Before
  <2>4. QED BY <1>1, <2>1, <2>3 DEF Closing
<1>4. QED BY <1>2, <1>3

\* The same for what the first line still leaves to come.
LEMMA OrderTail ==
    ASSUME NEW p, IsProgram(p), p # <<>>
    PROVE  /\ Closing(p, 0) <=> p[1].do = "commit" \/ (p[1].do # "configure" /\ Closing(Tail(p), 0))
           /\ Editing(p, 0) <=> p[1].do = "edit" \/ (p[1].do # "configure" /\ Editing(Tail(p), 0))
           /\ Awaits(p) <=> p[1].do = "poll" \/ (p[1].do # "request" /\ Awaits(Tail(p)))
BY BeforeHead DEF Closing, Editing, Awaits

\* Nothing is to come when there are no lines.
LEMMA Nothing ==
    /\ ~Closing(<<>>, 0) /\ ~Editing(<<>>, 0) /\ ~Awaits(<<>>) /\ ~Held(<<>>, 0)
    /\ Parts(<<>>) /\ AllLooked(<<>>) /\ Looked(<<>>)
    /\ \A edits : Sent(<<>>, edits)
    /\ \A g : ~LastSet(<<>>, g) /\ Untouched(<<>>, g)
    /\ \A do : ~Has(<<>>, do)
    /\ Reloads(<<>>)
    /\ IsProgram(<<>>)
BY DEF Closing, Editing, Awaits, Held, Before, Parts, AllLooked, Looked, Sent, LastSet, Untouched,
       Has, Sets, Reloads, IsProgram

\* What the other lines keep when the first is done.
LEMMA RestTail ==
    ASSUME NEW p, IsProgram(p), p # <<>>
    PROVE  /\ \A edits : Sent(p, edits) =>
                 Sent(Tail(p), edits) /\ (p[1].do \in {"edit", "put"} => Pair(p[1]) \in edits)
           /\ AllLooked(p) => AllLooked(Tail(p)) /\ p[1].checked
           /\ Looked(p) => Looked(Tail(p)) /\ (p[1].do = "request" => p[1].checked)
<1> USE TailLines, SetsTail
<1>1. ASSUME NEW edits, Sent(p, edits)
      PROVE  Sent(Tail(p), edits) /\ (p[1].do \in {"edit", "put"} => Pair(p[1]) \in edits)
  <2>1. \A i \in Sets(p) : Pair(p[i]) \in edits
      BY <1>1 DEF Sent
  <2>2. \A i \in Sets(Tail(p)) : Pair(Tail(p)[i]) \in edits
      BY <2>1
  <2>3. QED BY <2>1, <2>2 DEF Sent
<1>2. \A i \in 1 .. Len(Tail(p)) : i + 1 \in 1 .. Len(p) /\ Tail(p)[i] = p[i + 1]
    OBVIOUS
<1>3. 1 \in 1 .. Len(p)
    OBVIOUS
<1>4. AllLooked(p) => AllLooked(Tail(p)) /\ p[1].checked
    BY <1>2, <1>3 DEF AllLooked
<1>5. Looked(p) => Looked(Tail(p)) /\ (p[1].do = "request" => p[1].checked)
    BY <1>2, <1>3 DEF Looked
<1>6. QED BY <1>1, <1>4, <1>5

\* What an operation still sets, when its first line is done.
LEMMA SetTail ==
    ASSUME NEW p, IsProgram(p), p # <<>>, NEW g
    PROVE  /\ LastSet(p, g) => \/ LastSet(Tail(p), g)
                               \/ /\ p[1].do \in {"edit", "put"} /\ Pair(p[1]) = g
                                  /\ Untouched(Tail(p), g)
           /\ Untouched(p, g) => /\ Untouched(Tail(p), g)
                                 /\ p[1].do \in {"edit", "put"} => p[1].attr # g[1]
<1>a. \A k \in Sets(Tail(p)) : k + 1 \in Sets(p) /\ k \in Nat \ {0} /\ Tail(p)[k] = p[k + 1]
    BY SetsTail, Zenon
<1>b. \A k \in Sets(p) : k = 1 \/ (k \in Nat /\ k > 1 /\ k - 1 \in Sets(Tail(p)) /\ Tail(p)[k - 1] = p[k])
    BY SetsTail, Zenon
<1>c. 1 \in Sets(p) <=> p[1].do \in {"edit", "put"}
    BY SetsTail, Zenon
<1>1. ASSUME LastSet(p, g)
      PROVE  \/ LastSet(Tail(p), g)
             \/ p[1].do \in {"edit", "put"} /\ Pair(p[1]) = g /\ Untouched(Tail(p), g)
  <2>1. PICK i \in Sets(p) : Pair(p[i]) = g /\ \A k \in Sets(p) : k > i => p[k].attr # g[1]
      BY <1>1 DEF LastSet
  <2>2. CASE i = 1
    <3>1. ASSUME NEW k \in Sets(Tail(p)) PROVE Tail(p)[k].attr # g[1]
      <4>1. k + 1 \in Sets(p) /\ k \in Nat \ {0} /\ Tail(p)[k] = p[k + 1]
          BY <1>a, Zenon
      <4>2. p[k + 1].attr # g[1]
          BY <2>1, <2>2, <4>1
      <4>3. QED BY <4>1, <4>2, Zenon
    <3>2. QED BY <1>c, <2>1, <2>2, <3>1 DEF Untouched
  <2>3. CASE i # 1
    <3>1. i \in Nat /\ i - 1 \in Sets(Tail(p)) /\ Tail(p)[i - 1] = p[i]
        BY <1>b, <2>3
    <3>2. ASSUME NEW k \in Sets(Tail(p)), k > i - 1 PROVE Tail(p)[k].attr # g[1]
      <4>1. k + 1 \in Sets(p) /\ k \in Nat \ {0} /\ Tail(p)[k] = p[k + 1]
          BY <1>a, Zenon
      <4>2. p[k + 1].attr # g[1]
          BY <2>1, <3>1, <3>2, <4>1
      <4>3. QED BY <4>1, <4>2, Zenon
    <3>3. QED BY <2>1, <3>1, <3>2 DEF LastSet
  <2>4. QED BY <2>2, <2>3
<1>2. ASSUME Untouched(p, g) PROVE Untouched(Tail(p), g) /\ (p[1].do \in {"edit", "put"} => p[1].attr # g[1])
  <2>1. \A k \in Sets(p) : p[k].attr # g[1]
      BY <1>2 DEF Untouched
  <2>2. \A k \in Sets(Tail(p)) : Tail(p)[k].attr # g[1]
      BY <1>a, <2>1, Zenon
  <2>3. QED BY <1>c, <2>1, <2>2 DEF Untouched
<1>3. QED BY <1>1, <1>2

\* The waits of run_CBA_restore_backup, when the first line is done.
LEMMA ReloadsTail ==
    ASSUME NEW p, IsProgram(p), p # <<>>, Reloads(p)
    PROVE  /\ Reloads(Tail(p)) /\ p[1].do # "reboot"
           /\ p[1].do = "wait_broken" => Quiet(p) /\ Quiet(Tail(p))
           /\ Tail(p) = <<>> => p[1].do = "wait_reload"
<1> USE TailLines
<1>1. ~Has(Tail(p), "reboot") /\ p[1].do # "reboot"
    BY HasHead DEF Reloads
<1>2. Tail(p) = <<>> => p[1].do = "wait_reload"
    BY DEF Reloads
<1>3. Tail(p) # <<>> => Tail(p)[Len(Tail(p))].do = "wait_reload"
  <2>1. Tail(p) # <<>> => Len(p) - 1 \in 1 .. Len(p) - 1 /\ Tail(p)[Len(p) - 1] = p[Len(p)]
      OBVIOUS
  <2>2. QED BY <2>1 DEF Reloads
<1>4. ASSUME NEW i \in 1 .. Len(Tail(p)), Tail(p)[i].do = "wait_broken", NEW k \in i .. Len(Tail(p))
      PROVE  Tail(p)[k].do \notin {"open", "request"}
  <2>1. i + 1 \in 1 .. Len(p) /\ k + 1 \in i + 1 .. Len(p) /\ k \in 1 .. Len(p) - 1
      OBVIOUS
  <2>2. p[i + 1].do = "wait_broken" /\ Tail(p)[k] = p[k + 1]
      BY <1>4, <2>1
  <2>3. QED BY <2>1, <2>2 DEF Reloads
<1>5. ASSUME p[1].do = "wait_broken" PROVE Quiet(p) /\ Quiet(Tail(p))
  <2>1. 1 \in 1 .. Len(p) /\ \A k \in 1 .. Len(p) : p[k].do \notin {"open", "request"}
      BY <1>5 DEF Reloads
  <2>2. Quiet(p)
      BY <2>1 DEF Quiet, Has
  <2>3. QED BY <2>2, HasHead DEF Quiet
<1>6. QED BY <1>1, <1>2, <1>3, <1>4, <1>5 DEF Reloads

-----------------------------------------------------------------------------
\* Types: of an operation, of a session.
Shaped(o) ==
    /\ \E N, P, G, E, L : o \in [name : N, prog : P, goal : G, edits : E, level : L]
    /\ IsProgram(o.prog)
IsSession(s) ==
    \E P : s \in [link : {"none", "up", "broken"}, mode : {"exec", "config"}, pending : P]

CbaType == Shaped(op) /\ IsSession(session) /\ TypeOK

\* The operation has not raised; its edits are lost and its commit is yet to be refused;
\* g is still to be set, pending, or in the configuration.
Goes == outcome \in {"running", "done"}
Doomed == session.mode = "exec" /\ Closing(op.prog, 0)
Settled(g) ==
    \/ LastSet(op.prog, g)
    \/ /\ Untouched(op.prog, g)
       /\ \/ g \in session.pending
          \/ g \in config /\ \A p \in session.pending : p[1] # g[1]

\* The transaction under way, and what the lines still to come make of it.
Transacts ==
    /\ outcome = "running" <=> op.prog # <<>>
    /\ Parts(op.prog) /\ Sent(op.prog, op.edits)
    /\ session.pending # {} =>
          session.mode = "config" /\ Held(op.prog, 0) /\ session.pending \subseteq op.edits
    /\ session.mode = "exec" /\ Editing(op.prog, 0) => Closing(op.prog, 0)
    /\ Goes /\ op.name \in Strict => ~refused /\ AllLooked(op.prog)
    /\ Goes /\ ~refused => (Doomed \/ \A g \in op.goal : Settled(g))

\* An operation whose program is replaced is what it was otherwise.
LEMMA WithProgram ==
    ASSUME NEW o, Shaped(o), NEW p, IsProgram(p)
    PROVE  LET n == [o EXCEPT !.prog = p] IN
           /\ Shaped(n) /\ n.prog = p /\ n.name = o.name /\ n.goal = o.goal /\ n.edits = o.edits
           /\ n.level = o.level
<1>1. PICK N, P, G, E, L : o \in [name : N, prog : P, goal : G, edits : E, level : L]
    BY DEF Shaped
<1> DEFINE n == [o EXCEPT !.prog = p]
<1>2. /\ n \in [name : N, prog : {p}, goal : G, edits : E, level : L]
      /\ n.prog = p /\ n.name = o.name /\ n.goal = o.goal /\ n.edits = o.edits /\ n.level = o.level
    BY <1>1
<1> HIDE DEF n
<1>3. \E M, Q, H, F, K : n \in [name : M, prog : Q, goal : H, edits : F, level : K]
    BY <1>2, Zenon
<1>4. IsProgram(n.prog)
    BY <1>2
<1>5. Shaped(n)
    BY <1>3, <1>4, Zenon DEF Shaped
<1>6. QED BY <1>2, <1>5 DEF n

\* A line is done: the operation goes on with the others, or returns.
LEMMA GoesOn ==
    ASSUME CbaType, Transacts, outcome = "running", Proceed
    PROVE  /\ op.prog # <<>> /\ IsProgram(op.prog) /\ Line1 = op.prog[1]
           /\ op' = [op EXCEPT !.prog = Tail(op.prog)] /\ Shaped(op')
           /\ op'.prog = Tail(op.prog) /\ op'.name = op.name
           /\ op'.goal = op.goal /\ op'.edits = op.edits /\ op'.level = op.level
           /\ outcome' \in {"running", "done"} /\ (outcome' = "running" <=> op'.prog # <<>>)
           /\ outcome' \in {"none", "running", "done", "failed"}
<1>1. op.prog # <<>> /\ IsProgram(op.prog)
    BY DEF CbaType, Shaped, Transacts
<1>2. /\ IsProgram(Tail(op.prog)) /\ Head(op.prog) = op.prog[1]
      /\ Tail(op.prog) = <<>> <=> Len(op.prog) = 1
    BY <1>1, TailLines
<1>3. op' = [op EXCEPT !.prog = Tail(op.prog)]
    BY DEF Proceed
<1>4. /\ Shaped(op') /\ op'.prog = Tail(op.prog) /\ op'.name = op.name
      /\ op'.goal = op.goal /\ op'.edits = op.edits /\ op'.level = op.level
  <2>1. Shaped(op)
      BY DEF CbaType
  <2> DEFINE q == Tail(op.prog)
  <2>2. IsProgram(q) /\ op' = [op EXCEPT !.prog = q]
      BY <1>2, <1>3
  <2> HIDE DEF q
  <2>3. QED BY <2>1, <2>2, WithProgram DEF q
<1>5. outcome' = IF Len(op.prog) = 1 THEN "done" ELSE "running"
    BY DEF Proceed
<1>6. QED BY <1>1, <1>2, <1>3, <1>4, <1>5 DEF Line1

\* The call raises: no line and no session are left.
LEMMA Stops ==
    ASSUME CbaType, Raise
    PROVE  /\ op'.prog = <<>> /\ Shaped(op') /\ op'.name = op.name /\ op'.edits = op.edits
           /\ outcome' = "failed"
           /\ session' = NoSession /\ IsSession(session')
           /\ session'.pending = {} /\ session'.mode = "exec" /\ session'.link = "none"
<1>1. op' = [op EXCEPT !.prog = <<>>] /\ session' = NoSession /\ outcome' = "failed"
    BY DEF Raise
<1>2. op'.prog = <<>> /\ Shaped(op') /\ op'.name = op.name /\ op'.edits = op.edits
    BY <1>1, Nothing, WithProgram DEF CbaType
<1>3. QED BY <1>1, <1>2 DEF NoSession, IsSession

\* A call that raises leaves no transaction behind.
LEMMA RaiseTransacts ==
    ASSUME CbaType, Raise
    PROVE  Transacts'
<1>1. /\ op'.prog = <<>> /\ outcome' = "failed" /\ session'.pending = {}
    BY Stops
<1>2. Parts(<<>>) /\ Sent(<<>>, op'.edits) /\ ~Editing(<<>>, 0)
    BY Nothing
<1>3. QED BY <1>1, <1>2 DEF Transacts, Goes

\* What every line that is done leaves true.
LEMMA ProceedRest ==
    ASSUME CbaType, Transacts, outcome = "running", Proceed
    PROVE  /\ outcome' = "running" <=> op'.prog # <<>>
           /\ Parts(op'.prog) /\ Sent(op'.prog, op'.edits)
           /\ op.name \in Strict => ~refused /\ AllLooked(op'.prog) /\ Line1.checked
<1> USE GoesOn
<1>1. Parts(op'.prog)
    BY PartsTail DEF Transacts
<1>2. Sent(op'.prog, op'.edits)
    BY RestTail DEF Transacts
<1>3. op.name \in Strict => ~refused /\ AllLooked(op'.prog) /\ Line1.checked
    BY RestTail DEF Transacts, Goes
<1>4. QED BY <1>1, <1>2, <1>3

\* A line that leaves the transaction as it is.
LEMMA PlainTransacts ==
    ASSUME CbaType, Transacts, outcome = "running", Proceed,
           session'.mode = session.mode, session'.pending = session.pending, config' = config,
           Line1.do \notin {"edit", "put", "commit"} \/ (Line1.do = "edit" /\ session.mode = "exec"),
           Line1.do = "configure" => session.mode = "config",
           refused' = refused \/ (refused' /\ ~Line1.checked)
    PROVE  Transacts'
<1> DEFINE p == op.prog
<1>0. /\ p # <<>> /\ IsProgram(p) /\ Line1 = p[1] /\ op'.prog = Tail(p) /\ op'.name = op.name
      /\ op'.goal = op.goal /\ op'.edits = op.edits
    BY GoesOn
<1>1. /\ outcome' = "running" <=> op'.prog # <<>>
      /\ Parts(op'.prog) /\ Sent(op'.prog, op'.edits)
      /\ op.name \in Strict => ~refused /\ AllLooked(op'.prog) /\ Line1.checked
    BY ProceedRest
<1>2. session'.pending # {} =>
          session'.mode = "config" /\ Held(op'.prog, 0) /\ session'.pending \subseteq op'.edits
  <2>1. session.pending # {} => session.mode = "config" /\ Held(p, 0) /\ session.pending \subseteq op.edits
      BY DEF Transacts
  <2>2. Held(p, 0) /\ p[1].do # "commit" => Held(Tail(p), 0)
      BY <1>0, HeldTail
  <2>3. p[1].do # "commit"
      BY <1>0
  <2>4. QED BY <1>0, <2>1, <2>2, <2>3
<1>3. /\ Closing(p, 0) <=> p[1].do = "commit" \/ (p[1].do # "configure" /\ Closing(Tail(p), 0))
      /\ Editing(p, 0) <=> p[1].do = "edit" \/ (p[1].do # "configure" /\ Editing(Tail(p), 0))
    BY <1>0, OrderTail
<1>4. session.mode = "exec" /\ Editing(p, 0) => Closing(p, 0)
    BY DEF Transacts
<1>5. session'.mode = "exec" /\ Editing(op'.prog, 0) => Closing(op'.prog, 0)
    BY <1>0, <1>3, <1>4
<1>6. Goes' /\ op'.name \in Strict => ~refused' /\ AllLooked(op'.prog)
    BY <1>0, <1>1
<1>7. ASSUME ~refused' PROVE Doomed' \/ \A g \in op'.goal : Settled(g)'
  <2>1. Doomed \/ \A g \in op.goal : Settled(g)
      BY <1>7 DEF Transacts, Goes
  <2>2. CASE Doomed
      BY <1>0, <1>3, <2>2 DEF Doomed
  <2>3. CASE p[1].do = "edit" /\ session.mode = "exec"
      BY <1>0, <1>3, <1>4, <2>3 DEF Doomed
  <2>4. CASE p[1].do # "edit" /\ \A g \in op.goal : Settled(g)
    <3>1. ASSUME NEW g \in op.goal PROVE Settled(g)'
      <4>1. /\ LastSet(p, g) => LastSet(Tail(p), g)
            /\ Untouched(p, g) => Untouched(Tail(p), g)
          BY <1>0, <2>4, SetTail
      <4>2. QED BY <1>0, <2>4, <4>1 DEF Settled
    <3>2. QED BY <1>0, <3>1
  <2>5. QED BY <1>0, <2>1, <2>2, <2>3, <2>4
<1>8. QED BY <1>1, <1>2, <1>5, <1>6, <1>7 DEF Transacts

\* A session made anew, or closed: the edits of the old one are gone.
LEMMA SwitchTransacts ==
    ASSUME CbaType, Transacts, outcome = "running", Proceed \/ UNCHANGED <<op, outcome>>,
           session'.mode = "exec", session'.pending = {}, config' = config, refused' = refused,
           op.prog # <<>>, op.prog[1].do \in Replacing
    PROVE  Transacts'
<1> DEFINE p == op.prog
<1>0. /\ IsProgram(p) /\ op'.prog \in {p, Tail(p)} /\ op'.name = op.name
      /\ op'.goal = op.goal /\ op'.edits = op.edits
    BY GoesOn DEF CbaType, Shaped
<1>1. /\ outcome' = "running" <=> op'.prog # <<>>
      /\ Parts(op'.prog) /\ Sent(op'.prog, op'.edits)
      /\ op.name \in Strict => ~refused /\ AllLooked(op'.prog)
  <2>1. CASE Proceed
      BY <2>1, ProceedRest
  <2>2. CASE UNCHANGED <<op, outcome>>
      BY <2>2 DEF Transacts, Goes
  <2>3. QED BY <2>1, <2>2
<1>2. /\ Closing(p, 0) <=> p[1].do = "commit" \/ (p[1].do # "configure" /\ Closing(Tail(p), 0))
      /\ Editing(p, 0) <=> p[1].do = "edit" \/ (p[1].do # "configure" /\ Editing(Tail(p), 0))
    BY <1>0, OrderTail
<1>3. p[1].do # "commit" /\ p[1].do # "configure" /\ p[1].do # "edit"
         /\ p[1].do \notin {"edit", "put"}
    BY DEF Replacing
<1>4. Editing(Tail(p), 0) => Closing(Tail(p), 0)
    BY <1>0, PartsTail DEF Transacts
<1>5. Editing(op'.prog, 0) => Closing(op'.prog, 0)
    BY <1>0, <1>2, <1>3, <1>4
<1>6. ASSUME ~refused' PROVE Doomed' \/ \A g \in op'.goal : Settled(g)'
  <2>1. Doomed \/ \A g \in op.goal : Settled(g)
      BY <1>6 DEF Transacts, Goes
  <2>2. CASE Closing(p, 0)
      BY <1>0, <1>2, <1>3, <2>2 DEF Doomed
  <2>3. CASE ~Closing(p, 0)
    <3>1. session.pending = {}
        BY <1>0, <2>3, HeldTail DEF Transacts
    <3>2. ASSUME NEW g \in op.goal PROVE Settled(g)'
      <4>1. /\ LastSet(p, g) => LastSet(Tail(p), g)
            /\ Untouched(p, g) => Untouched(Tail(p), g)
          BY <1>0, <1>3, SetTail
      <4>2. QED BY <1>0, <2>1, <2>3, <3>1, <4>1 DEF Settled, Doomed
    <3>3. QED BY <1>0, <3>2
  <2>4. QED BY <2>2, <2>3
<1>7. QED BY <1>0, <1>1, <1>5, <1>6 DEF Transacts, Goes

\* An edit the transaction takes.
LEMMA EditTransacts ==
    ASSUME CbaType, Transacts, Doing("edit"), session.mode = "config", Proceed,
           session' = [session EXCEPT !.pending =
                           {e \in @ : e[1] # Line1.attr} \cup {<<Line1.attr, Line1.val>>}],
           config' = config, refused' = refused
    PROVE  Transacts' /\ IsSession(session')
<1> DEFINE p == op.prog
<1>0. /\ outcome = "running" /\ p # <<>> /\ IsProgram(p) /\ Line1 = p[1] /\ op'.prog = Tail(p)
      /\ op'.name = op.name /\ op'.goal = op.goal /\ op'.edits = op.edits /\ p[1].do = "edit"
     
    BY GoesOn DEF Doing, Line1
<1>1. /\ outcome' = "running" <=> op'.prog # <<>>
      /\ Parts(op'.prog) /\ Sent(op'.prog, op'.edits)
      /\ op.name \in Strict => ~refused /\ AllLooked(op'.prog)
    BY <1>0, ProceedRest
<1>2. /\ session'.pending = {e \in session.pending : e[1] # p[1].attr} \cup {Pair(p[1])}
      /\ session'.mode = "config" /\ session'.link = session.link
    BY <1>0 DEF CbaType, IsSession, Pair
<1>3. Pair(p[1]) \in op.edits
    BY <1>0, RestTail DEF Transacts, Pair
<1>4. IsSession(session')
  <2>1. session'.pending \in {session'.pending}
      OBVIOUS
  <2>2. session' = [link |-> session.link, mode |-> session.mode, pending |-> session'.pending]
      BY <1>2 DEF CbaType, IsSession
  <2>3. QED BY <2>1, <2>2 DEF CbaType, IsSession
<1>5. session'.pending # {} =>
          session'.mode = "config" /\ Held(op'.prog, 0) /\ session'.pending \subseteq op'.edits
  <2>1. Held(Tail(p), 0)
      BY <1>0, PartsTail DEF Transacts
  <2>2. session.pending \subseteq op.edits
      BY DEF Transacts
  <2>3. QED BY <1>0, <1>2, <1>3, <2>1, <2>2
<1>6. ASSUME ~refused' PROVE \A g \in op'.goal : Settled(g)'
  <2>1. \A g \in op.goal : Settled(g)
      BY <1>0, <1>6 DEF Transacts, Goes, Doomed
  <2>2. ASSUME NEW g \in op.goal PROVE Settled(g)'
    <3>1. /\ LastSet(p, g) => LastSet(Tail(p), g) \/ (Pair(p[1]) = g /\ Untouched(Tail(p), g))
          /\ Untouched(p, g) => Untouched(Tail(p), g) /\ p[1].attr # g[1]
        BY <1>0, SetTail
    <3>2. Pair(p[1])[1] = p[1].attr
        BY DEF Pair
    <3>3. CASE LastSet(Tail(p), g)
        BY <1>0, <3>3 DEF Settled
    <3>4. CASE Pair(p[1]) = g /\ Untouched(Tail(p), g)
        BY <1>0, <1>2, <3>4 DEF Settled
    <3>5. CASE Untouched(p, g) /\ g \in session.pending
        BY <1>0, <1>2, <3>1, <3>5 DEF Settled
    <3>6. CASE /\ Untouched(p, g) /\ g \in config /\ \A e \in session.pending : e[1] # g[1]
        BY <1>0, <1>2, <3>1, <3>2, <3>6 DEF Settled
    <3>7. QED BY <2>1, <3>1, <3>3, <3>4, <3>5, <3>6 DEF Settled
  <2>3. QED BY <1>0, <2>2
<1>7. QED BY <1>0, <1>1, <1>2, <1>4, <1>5, <1>6 DEF Transacts

\* SendCommit: the pending edits are in the configuration.
LEMMA CommitTransacts ==
    ASSUME CbaType, Transacts, Doing("commit"), session.mode = "config", Proceed,
           session' = [session EXCEPT !.mode = "exec", !.pending = {}],
           Committed, refused' = refused
    PROVE  Transacts' /\ IsSession(session')
<1> DEFINE p == op.prog
<1>0. /\ outcome = "running" /\ p # <<>> /\ IsProgram(p) /\ Line1 = p[1] /\ op'.prog = Tail(p)
      /\ op'.name = op.name /\ op'.goal = op.goal /\ op'.edits = op.edits /\ p[1].do = "commit"
    BY GoesOn DEF Doing, Line1
<1>1. /\ outcome' = "running" <=> op'.prog # <<>>
      /\ Parts(op'.prog) /\ Sent(op'.prog, op'.edits)
      /\ op.name \in Strict => ~refused /\ AllLooked(op'.prog)
    BY <1>0, ProceedRest
<1>2. session'.pending = {} /\ session'.mode = "exec" /\ IsSession(session')
    BY DEF CbaType, IsSession
<1>3. config' = {e \in config : \A q \in session.pending : q[1] # e[1]} \cup session.pending
    BY DEF Committed
<1>4. Editing(Tail(p), 0) => Closing(Tail(p), 0)
    BY <1>0, PartsTail DEF Transacts
<1>5. ASSUME ~refused', NEW g \in op.goal PROVE Settled(g)'
  <2>1. Settled(g)
      BY <1>0, <1>5 DEF Transacts, Goes, Doomed
  <2>2. /\ LastSet(p, g) => LastSet(Tail(p), g)
        /\ Untouched(p, g) => Untouched(Tail(p), g)
      BY <1>0, SetTail
  <2>3. QED BY <1>0, <1>2, <1>3, <2>1, <2>2 DEF Settled
<1>6. QED BY <1>0, <1>1, <1>2, <1>4, <1>5 DEF Transacts

\* A command that sets something at once: no edit waits for its commit then.
LEMMA PutTransacts ==
    ASSUME CbaType, Transacts, Doing("put"), Proceed, UNCHANGED <<session, refused>>,
           config' = SetTo(Line1)
    PROVE  Transacts'
<1> DEFINE p == op.prog
<1>0. /\ outcome = "running" /\ p # <<>> /\ IsProgram(p) /\ Line1 = p[1] /\ op'.prog = Tail(p)
      /\ op'.name = op.name /\ op'.goal = op.goal /\ op'.edits = op.edits /\ p[1].do = "put"
    BY GoesOn DEF Doing, Line1
<1>1. /\ outcome' = "running" <=> op'.prog # <<>>
      /\ Parts(op'.prog) /\ Sent(op'.prog, op'.edits)
      /\ op.name \in Strict => ~refused /\ AllLooked(op'.prog)
    BY <1>0, ProceedRest
<1>2. session.pending = {}
    BY <1>0, HeldTail DEF Transacts
<1>3. config' = {e \in config : e[1] # p[1].attr} \cup {Pair(p[1])}
    BY <1>0 DEF SetTo, Pair
<1>4. /\ Closing(p, 0) <=> p[1].do = "commit" \/ (p[1].do # "configure" /\ Closing(Tail(p), 0))
      /\ Editing(p, 0) <=> p[1].do = "edit" \/ (p[1].do # "configure" /\ Editing(Tail(p), 0))
    BY <1>0, OrderTail
<1>5. session'.mode = "exec" /\ Editing(Tail(p), 0) => Closing(Tail(p), 0)
    BY <1>0, <1>4 DEF Transacts
<1>6. ASSUME ~refused' PROVE Doomed' \/ \A g \in op'.goal : Settled(g)'
  <2>1. Doomed \/ \A g \in op.goal : Settled(g)
      BY <1>0, <1>6 DEF Transacts, Goes
  <2>2. CASE Doomed
      BY <1>0, <1>4, <2>2 DEF Doomed
  <2>3. ASSUME NEW g \in op.goal, Settled(g) PROVE Settled(g)'
    <3>1. /\ LastSet(p, g) => LastSet(Tail(p), g) \/ (Pair(p[1]) = g /\ Untouched(Tail(p), g))
          /\ Untouched(p, g) => Untouched(Tail(p), g) /\ p[1].attr # g[1]
        BY <1>0, SetTail
    <3>2. CASE LastSet(Tail(p), g)
        BY <1>0, <3>2 DEF Settled
    <3>3. CASE Pair(p[1]) = g /\ Untouched(Tail(p), g)
        BY <1>0, <1>2, <1>3, <3>3 DEF Settled
    <3>4. CASE Untouched(p, g) /\ g \in config
        BY <1>0, <1>2, <1>3, <3>1, <3>4 DEF Settled
    <3>5. QED BY <1>2, <2>3, <3>1, <3>2, <3>3, <3>4 DEF Settled
  <2>4. QED BY <1>0, <2>1, <2>2, <2>3
<1>7. QED BY <1>0, <1>1, <1>2, <1>5, <1>6 DEF Transacts

\* SendConfigure: the next transaction.
LEMMA ConfigureTransacts ==
    ASSUME CbaType, Transacts, Doing("configure"), Proceed, session.mode = "exec",
           session' = [session EXCEPT !.mode = "config"], config' = config, refused' = refused
    PROVE  Transacts' /\ IsSession(session')
<1> DEFINE p == op.prog
<1>0. /\ outcome = "running" /\ p # <<>> /\ IsProgram(p) /\ Line1 = p[1] /\ op'.prog = Tail(p)
      /\ op'.name = op.name /\ op'.goal = op.goal /\ op'.edits = op.edits /\ p[1].do = "configure"
    BY GoesOn DEF Doing, Line1
<1>1. /\ outcome' = "running" <=> op'.prog # <<>>
      /\ Parts(op'.prog) /\ Sent(op'.prog, op'.edits)
      /\ op.name \in Strict => ~refused /\ AllLooked(op'.prog)
    BY <1>0, ProceedRest
<1>2. session'.pending = session.pending /\ session'.mode = "config" /\ IsSession(session')
    BY DEF CbaType, IsSession
<1>3. session.pending = {}
    BY DEF Transacts
<1>4. ~Doomed
    BY <1>0, OrderTail DEF Doomed
<1>5. ASSUME ~refused', NEW g \in op.goal PROVE Settled(g)'
  <2>1. Settled(g)
      BY <1>0, <1>4, <1>5 DEF Transacts, Goes
  <2>2. /\ LastSet(p, g) => LastSet(Tail(p), g)
        /\ Untouched(p, g) => Untouched(Tail(p), g)
      BY <1>0, SetTail
  <2>3. QED BY <1>0, <1>2, <1>3, <2>1, <2>2 DEF Settled
<1>6. QED BY <1>0, <1>1, <1>2, <1>3, <1>5 DEF Transacts

\* The next operation finds no edits of an earlier one.
LEMMA BeginTransacts ==
    ASSUME CbaType, Transacts, Begin, WellFormed(op'), Shaped(op')
    PROVE  Transacts'
<1>1. /\ outcome # "running" /\ outcome' = (IF op'.prog = <<>> THEN "done" ELSE "running")
      /\ session' = session /\ config' = {} /\ refused' = FALSE
    BY DEF Begin
<1>2. session.pending = {}
    BY <1>1, Nothing DEF Transacts
<1>3. /\ Parts(op'.prog) /\ (Editing(op'.prog, 0) => Closing(op'.prog, 0)) /\ Sent(op'.prog, op'.edits)
      /\ \A g \in op'.goal : LastSet(op'.prog, g)
      /\ op'.name \in Strict => AllLooked(op'.prog)
    BY DEF WellFormed, Whole
<1>4. QED BY <1>1, <1>2, <1>3 DEF Transacts, Goes, Settled

\* A step of the node, or a poll that goes on.
LEMMA SameTransacts ==
    ASSUME CbaType, Transacts, UNCHANGED <<op, outcome, config, refused>>,
           session'.mode = session.mode, session'.pending = session.pending
    PROVE  Transacts'
<1>1. \A g \in op.goal : Settled(g)' <=> Settled(g)
    BY DEF Settled
<1>2. QED BY <1>1 DEF Transacts, Goes, Doomed

\* What OperationsSound shows.
Sound == \A o \in Operations : WellFormed(o) /\ Shaped(o)

\* Sessions: released, made anew, broken.
LEMMA Renewed ==
    ASSUME CbaType
    PROVE  /\ IsSession(NoSession) /\ NoSession.pending = {} /\ NoSession.mode = "exec"
           /\ NoSession.link = "none"
           /\ IsSession([NoSession EXCEPT !.link = "up"])
           /\ [NoSession EXCEPT !.link = "up"].pending = {}
           /\ [NoSession EXCEPT !.link = "up"].mode = "exec"
           /\ [NoSession EXCEPT !.link = "up"].link = "up"
           /\ IsSession(session)
           /\ IsSession([session EXCEPT !.link = "broken"])
           /\ [session EXCEPT !.link = "broken"].pending = session.pending
           /\ [session EXCEPT !.link = "broken"].mode = session.mode
           /\ [session EXCEPT !.link = "broken"].link = "broken"
BY DEF CbaType, IsSession, NoSession

\* The answer to a line is an error: the call raises, or nobody looks.
LEMMA ErrorTransacts ==
    ASSUME CbaType, Transacts, outcome = "running", OnError, config' = config,
           Line1.do \notin {"put", "configure"}
    PROVE  Transacts' /\ Shaped(op') /\ IsSession(session')
              /\ outcome' \in {"none", "running", "done", "failed"} /\ refused' \in BOOLEAN
<1>1. CASE Line1.checked
    BY <1>1, RaiseTransacts, Stops DEF OnError, CbaType, TypeOK
<1>2. CASE ~Line1.checked
  <2>1. Proceed /\ refused' = TRUE /\ session' = session
      BY <1>2 DEF OnError
  <2>2. /\ op.prog # <<>> /\ IsProgram(op.prog) /\ Line1 = op.prog[1] /\ Shaped(op')
        /\ outcome' \in {"none", "running", "done", "failed"} /\ op'.prog = Tail(op.prog)
        /\ op'.name = op.name /\ op'.goal = op.goal /\ op'.edits = op.edits
      BY <2>1, GoesOn
  <2>3. Line1.do # "commit"
      BY <1>2, <2>2, PartsTail DEF Transacts
  <2>4. CASE Line1.do # "edit" \/ session.mode = "exec"
      BY <1>2, <2>1, <2>2, <2>3, <2>4, PlainTransacts DEF CbaType
  <2>5. CASE Line1.do = "edit" /\ session.mode = "config"
    <3>1. /\ outcome' = "running" <=> op'.prog # <<>>
          /\ Parts(op'.prog) /\ Sent(op'.prog, op'.edits)
          /\ op.name \in Strict => ~refused /\ AllLooked(op'.prog) /\ Line1.checked
        BY <2>1, ProceedRest
    <3>2. Held(Tail(op.prog), 0)
        BY <2>2, <2>5, PartsTail DEF Transacts
    <3>3. QED BY <1>2, <2>1, <2>2, <2>5, <3>1, <3>2 DEF Transacts, Goes, CbaType
  <2>6. QED BY <2>4, <2>5 DEF CbaType, IsSession
<1>3. QED BY <1>1, <1>2

\* start_CBACliss keeps the type and the transaction.
LEMMA OpenTransacts ==
    ASSUME CbaType, Transacts, start_CBACliss
    PROVE  CbaType' /\ Transacts'
<1>0. /\ outcome = "running" /\ op.prog # <<>> /\ IsProgram(op.prog) /\ op.prog[1].do = "open"
      /\ Line1 = op.prog[1] /\ Line1.do = "open"
      /\ UNCHANGED <<config, report, online, reload, polled, refused, foreign, early, reloaded>>
    BY TailLines DEF start_CBACliss, Doing, Line1, CbaType, Shaped, history
<1>1. CASE Raise
    BY <1>0, <1>1, RaiseTransacts, Stops DEF CbaType, TypeOK, IsSession
<1>2. CASE /\ session' = IF session.link = "up" THEN session ELSE [NoSession EXCEPT !.link = "up"]
           /\ Proceed
  <2>1. Shaped(op') /\ outcome' \in {"none", "running", "done", "failed"}
      BY <1>0, <1>2, GoesOn
  <2>2. IsSession(session')
      BY <1>2, Renewed
  <2>3. ASSUME session.link = "up" PROVE Transacts'
    <3>1. session' = session
        BY <1>2, <2>3
    <3>2. Proceed
        BY <1>2
    <3>3. QED BY <1>0, <3>1, <3>2, PlainTransacts
  <2>4. ASSUME session.link # "up" PROVE Transacts'
    <3>1. session' = [NoSession EXCEPT !.link = "up"]
        BY <1>2, <2>4
    <3>2. session'.mode = "exec" /\ session'.pending = {}
        BY <3>1, Renewed
    <3>3. Proceed
        BY <1>2
    <3>4. op.prog[1].do \in Replacing
        BY <1>0 DEF Replacing
    <3>5. QED BY <1>0, <3>2, <3>3, <3>4, SwitchTransacts
  <2>5. QED BY <1>0, <2>1, <2>2, <2>3, <2>4 DEF CbaType, TypeOK, IsSession
<1>3. QED BY <1>1, <1>2 DEF start_CBACliss

\* The lines of a transaction keep the type and the transaction.
LEMMA SendTransacts ==
    ASSUME CbaType, Transacts, SendConfigure \/ SendEdit \/ SendCommit
    PROVE  CbaType' /\ Transacts'
<1>0. /\ outcome = "running" /\ op.prog # <<>> /\ IsProgram(op.prog) /\ Line1 = op.prog[1]
      /\ Line1.do = Head(op.prog).do
      /\ UNCHANGED <<online, reload, polled, foreign, early, reloaded>>
    BY TailLines DEF SendConfigure, SendEdit, SendCommit, Doing, Line1, CbaType, Shaped
<1>1. CASE SendConfigure
  <2>1. Line1.do = "configure" /\ config' = config /\ report' = report
      BY <1>1 DEF SendConfigure, Doing, Line1
  <2>2. CASE Raise /\ UNCHANGED refused
      BY <1>0, <2>1, <2>2, RaiseTransacts, Stops DEF CbaType, TypeOK, IsSession
  <2>3. CASE /\ session.mode = "exec" /\ session' = [session EXCEPT !.mode = "config"]
             /\ Proceed /\ UNCHANGED refused
    <3>1. Shaped(op') /\ outcome' \in {"none", "running", "done", "failed"}
        BY <1>0, <2>3, GoesOn
    <3>2. Transacts' /\ IsSession(session')
        BY <1>0, <1>1, <2>1, <2>3, ConfigureTransacts DEF SendConfigure
    <3>3. QED BY <1>0, <2>1, <2>3, <3>1, <3>2 DEF CbaType, TypeOK, IsSession
  <2>4. CASE session.mode = "config" /\ Proceed /\ UNCHANGED <<session, refused>>
    <3>1. Shaped(op') /\ outcome' \in {"none", "running", "done", "failed"}
        BY <1>0, <2>4, GoesOn
    <3>2. Transacts'
        BY <1>0, <2>1, <2>4, PlainTransacts
    <3>3. QED BY <1>0, <2>1, <2>4, <3>1, <3>2 DEF CbaType, TypeOK, IsSession
  <2>5. session.mode \in {"exec", "config"}
      BY DEF CbaType, IsSession
  <2>6. QED BY <1>1, <2>2, <2>3, <2>4, <2>5 DEF SendConfigure
<1>2. CASE SendEdit
  <2>1. Line1.do = "edit" /\ Doing("edit") /\ config' = config /\ report' = report
      BY <1>2 DEF SendEdit, Doing, Line1
  <2>2. CASE OnError
      BY <1>0, <2>1, <2>2, ErrorTransacts DEF CbaType, TypeOK, IsSession
  <2>3. CASE /\ session.mode = "config"
             /\ session' = [session EXCEPT !.pending =
                                {e \in @ : e[1] # Line1.attr} \cup {<<Line1.attr, Line1.val>>}]
             /\ Proceed /\ UNCHANGED refused
    <3>1. Shaped(op') /\ outcome' \in {"none", "running", "done", "failed"}
        BY <1>0, <2>3, GoesOn
    <3>2. Transacts' /\ IsSession(session')
        BY <2>1, <2>3, EditTransacts
    <3>3. QED BY <1>0, <2>1, <2>3, <3>1, <3>2 DEF CbaType, TypeOK, IsSession
  <2>4. CASE session.mode = "exec" /\ Proceed /\ UNCHANGED <<session, refused>>
    <3>1. Shaped(op') /\ outcome' \in {"none", "running", "done", "failed"}
        BY <1>0, <2>4, GoesOn
    <3>2. Transacts'
        BY <1>0, <2>1, <2>4, PlainTransacts
    <3>3. QED BY <1>0, <2>1, <2>4, <3>1, <3>2 DEF CbaType, TypeOK, IsSession
  <2>5. QED BY <1>2, <2>2, <2>3, <2>4 DEF SendEdit
<1>3. CASE SendCommit
  <2>1. Line1.do = "commit" /\ Doing("commit")
      BY <1>3 DEF SendCommit, Doing, Line1
  <2>2. CASE OnError /\ UNCHANGED <<config, report>>
      BY <1>0, <2>1, <2>2, ErrorTransacts DEF CbaType, TypeOK, IsSession
  <2>3. CASE /\ session.mode = "config" /\ Committed
             /\ session' = [session EXCEPT !.mode = "exec", !.pending = {}]
             /\ Proceed /\ UNCHANGED refused
    <3>1. Shaped(op') /\ outcome' \in {"none", "running", "done", "failed"}
        BY <1>0, <2>3, GoesOn
    <3>2. Transacts' /\ IsSession(session')
        BY <2>1, <2>3, CommitTransacts
    <3>3. report' \in [state : States, own : BOOLEAN]
        BY <2>3 DEF Committed, NoReport, States, CbaType, TypeOK
    <3>4. QED BY <1>0, <2>1, <2>3, <3>1, <3>2, <3>3 DEF CbaType, TypeOK, IsSession
  <2>4. QED BY <1>3, <2>2, <2>3 DEF SendCommit
<1>4. QED BY <1>1, <1>2, <1>3

\* The line under way is the first of the program.
LEMMA AtLine ==
    ASSUME CbaType, Transacts, NEW do, Doing(do)
    PROVE  /\ outcome = "running" /\ op.prog # <<>> /\ IsProgram(op.prog)
           /\ Line1 = op.prog[1] /\ Line1.do = do
BY TailLines DEF Doing, Line1, CbaType, Shaped

\* A line that needs nothing of the transaction.
LEMMA PassTransacts ==
    ASSUME CbaType, Transacts, NEW do, Doing(do), Proceed, UNCHANGED <<session, config, refused>>,
           do \notin {"edit", "put", "commit", "configure"}
    PROVE  Transacts' /\ Shaped(op') /\ IsSession(session')
              /\ outcome' \in {"none", "running", "done", "failed"}
BY AtLine, PlainTransacts, GoesOn DEF CbaType

\* A line that raises.
LEMMA FailTransacts ==
    ASSUME CbaType, Transacts, Raise
    PROVE  Transacts' /\ Shaped(op') /\ IsSession(session')
              /\ outcome' \in {"none", "running", "done", "failed"}
BY RaiseTransacts, Stops

\* A line that releases the session, and goes on.
LEMMA LeaveTransacts ==
    ASSUME CbaType, Transacts, NEW do \in Replacing, Doing(do), Proceed, UNCHANGED <<config, refused>>,
           session' = NoSession
    PROVE  Transacts' /\ Shaped(op') /\ IsSession(session')
              /\ outcome' \in {"none", "running", "done", "failed"}
BY AtLine, SwitchTransacts, GoesOn, Renewed

\* The other lines keep the type and the transaction.
LEMMA LinesTransact ==
    ASSUME CbaType, Transacts,
           \/ close_connection \/ Reading \/ CodeRaises \/ RunCommand \/ PutCommand
           \/ SendReboot \/ Reconnect \/ SendRequest \/ WaitBroken \/ WaitReload \/ SendOnBroken
    PROVE  CbaType' /\ Transacts'
<1> DEFINE Fine == Transacts' /\ Shaped(op') /\ IsSession(session')
                     /\ outcome' \in {"none", "running", "done", "failed"}
<1>0. ASSUME Fine, report' \in [state : States, own : BOOLEAN], online' = online,
             reload' \in BOOLEAN, polled' = polled, refused' \in BOOLEAN, early' \in BOOLEAN,
             UNCHANGED <<foreign, reloaded>>
      PROVE  CbaType' /\ Transacts'
    BY <1>0 DEF CbaType, TypeOK, IsSession
<1> HIDE DEF Fine
<1>1. CASE close_connection
  <2>1. Doing("close") /\ Proceed /\ session' = NoSession /\ UNCHANGED <<config, refused>>
      BY <1>1 DEF close_connection, history
  <2>2. Fine
      BY <2>1, LeaveTransacts DEF Replacing, Fine
  <2>3. QED BY <1>0, <1>1, <2>2 DEF close_connection, CbaType, TypeOK, history
<1>2. CASE Reading
  <2>1. PICK do \in {"look", "call"} : Doing(do)
      BY <1>2 DEF Reading
  <2>2. CASE Proceed /\ UNCHANGED <<session, refused>>
    <3>1. Fine
        BY <1>2, <2>1, <2>2, PassTransacts DEF Reading, Fine
    <3>2. QED BY <1>0, <1>2, <2>2, <3>1 DEF Reading, CbaType, TypeOK
  <2>3. CASE OnError
    <3>1. Fine /\ refused' \in BOOLEAN
        BY <1>2, <2>1, <2>3, AtLine, ErrorTransacts DEF Reading, Fine
    <3>2. QED BY <1>0, <1>2, <3>1 DEF Reading, CbaType, TypeOK
  <2>4. QED BY <1>2, <2>2, <2>3 DEF Reading
<1>3. CASE CodeRaises
  <2>1. Fine
      BY <1>3, FailTransacts DEF CodeRaises, Fine
  <2>2. QED BY <1>0, <1>3, <2>1 DEF CodeRaises, CbaType, TypeOK, history
<1>4. CASE RunCommand
  <2>1. Doing("run") /\ UNCHANGED <<config, refused>>
      BY <1>4 DEF RunCommand, history
  <2>2. CASE Proceed /\ UNCHANGED session
    <3>1. Fine
        BY <2>1, <2>2, PassTransacts DEF Fine
    <3>2. QED BY <1>0, <1>4, <3>1 DEF RunCommand, CbaType, TypeOK, history
  <2>3. CASE Raise
    <3>1. Fine
        BY <2>3, FailTransacts DEF Fine
    <3>2. QED BY <1>0, <1>4, <3>1 DEF RunCommand, CbaType, TypeOK, history
  <2>4. QED BY <1>4, <2>2, <2>3 DEF RunCommand
<1>5. CASE PutCommand
  <2>1. Doing("put") /\ UNCHANGED <<report, online, reload, polled, foreign, early, reloaded>>
      BY <1>5 DEF PutCommand
  <2>2. CASE config' = SetTo(Line1) /\ Proceed /\ UNCHANGED <<session, refused>>
    <3>1. Fine
        BY <2>1, <2>2, AtLine, PutTransacts, GoesOn DEF Fine, CbaType
    <3>2. QED BY <1>0, <2>1, <2>2, <3>1 DEF CbaType, TypeOK
  <2>3. CASE Raise /\ UNCHANGED refused
    <3>1. Fine
        BY <2>3, FailTransacts DEF Fine
    <3>2. QED BY <1>0, <2>1, <2>3, <3>1 DEF CbaType, TypeOK
  <2>4. CASE Proceed /\ refused' = TRUE /\ UNCHANGED <<session, config>> /\ ~Line1.checked
    <3>1. Fine
      <4>1. /\ op.prog # <<>> /\ IsProgram(op.prog) /\ op.prog[1].do = "put"
            /\ outcome = "running"
          BY <2>1, AtLine
      <4>2. /\ op'.prog = Tail(op.prog) /\ Shaped(op') /\ op'.name = op.name
            /\ outcome' \in {"none", "running", "done", "failed"}
          BY <2>4, <4>1, GoesOn
      <4>3. /\ outcome' = "running" <=> op'.prog # <<>>
            /\ Parts(op'.prog) /\ Sent(op'.prog, op'.edits)
            /\ op.name \in Strict => FALSE
          BY <2>4, <4>1, ProceedRest
      <4>4. session.pending = {}
          BY <4>1, HeldTail DEF Transacts
      <4>5. session.mode = "exec" /\ Editing(op'.prog, 0) => Closing(op'.prog, 0)
          BY <4>1, <4>2, OrderTail DEF Transacts
      <4>6. QED BY <2>4, <4>2, <4>3, <4>4, <4>5 DEF Fine, Transacts, Goes, CbaType
    <3>2. QED BY <1>0, <2>1, <2>4, <3>1 DEF CbaType, TypeOK
  <2>5. QED BY <1>5, <2>2, <2>3, <2>4 DEF PutCommand, OnError
<1>6. CASE SendReboot
  <2>1. Doing("reboot") /\ UNCHANGED <<config, refused>> /\ reload' \in {reload, TRUE}
      BY <1>6 DEF SendReboot, history
  <2>2. CASE Proceed /\ UNCHANGED session
    <3>1. Fine
        BY <2>1, <2>2, PassTransacts DEF Fine
    <3>2. QED BY <1>0, <1>6, <2>1, <3>1 DEF SendReboot, CbaType, TypeOK, history
  <2>3. CASE Raise
    <3>1. Fine
        BY <2>3, FailTransacts DEF Fine
    <3>2. QED BY <1>0, <1>6, <2>1, <3>1 DEF SendReboot, CbaType, TypeOK, history
  <2>4. QED BY <1>6, <2>2, <2>3 DEF SendReboot
<1>7. CASE Reconnect \/ WaitReload
  <2>1. PICK do \in {"reconnect", "wait_reload"} : Doing(do)
      BY <1>7 DEF Reconnect, WaitReload
  <2>2. UNCHANGED <<config, refused>>
      BY <1>7 DEF Reconnect, WaitReload, history
  <2>3. CASE Proceed /\ UNCHANGED session
    <3>1. Fine
        BY <2>1, <2>2, <2>3, PassTransacts DEF Fine
    <3>2. QED BY <1>0, <1>7, <3>1 DEF Reconnect, WaitReload, CbaType, TypeOK, history
  <2>4. CASE Raise
    <3>1. Fine
        BY <2>4, FailTransacts DEF Fine
    <3>2. QED BY <1>0, <1>7, <3>1 DEF Reconnect, WaitReload, CbaType, TypeOK, history
  <2>5. QED BY <1>7, <2>3, <2>4 DEF Reconnect, WaitReload
<1>8. CASE SendRequest
  <2>1. /\ Doing("request")
        /\ UNCHANGED <<config, online, reload, polled, foreign, early, reloaded>>
      BY <1>8 DEF SendRequest
  <2>2. CASE /\ report' = [state |-> "RUNNING", own |-> TRUE]
             /\ Proceed /\ UNCHANGED <<session, refused>>
    <3>1. Fine
        BY <2>1, <2>2, PassTransacts DEF Fine
    <3>2. QED BY <1>0, <2>1, <2>2, <3>1 DEF CbaType, TypeOK, States
  <2>3. CASE OnError /\ UNCHANGED report
    <3>1. Fine /\ refused' \in BOOLEAN
        BY <2>1, <2>3, AtLine, ErrorTransacts DEF Fine
    <3>2. QED BY <1>0, <2>1, <2>3, <3>1 DEF CbaType, TypeOK
  <2>4. CASE Raise /\ UNCHANGED <<report, refused>>
    <3>1. Fine
        BY <2>4, FailTransacts DEF Fine
    <3>2. QED BY <1>0, <2>1, <2>4, <3>1 DEF CbaType, TypeOK
  <2>5. QED BY <1>8, <2>2, <2>3, <2>4 DEF SendRequest
<1>9. CASE WaitBroken
  <2>1. Fine
      BY <1>9, PassTransacts DEF WaitBroken, Fine
  <2>2. QED BY <1>0, <1>9, <2>1 DEF WaitBroken, CbaType, TypeOK
<1>10. CASE SendOnBroken
  <2>1. Fine
      BY <1>10, FailTransacts DEF SendOnBroken, Fine
  <2>2. QED BY <1>0, <1>10, <2>1 DEF SendOnBroken, CbaType, TypeOK, history
<1>11. QED BY <1>1, <1>2, <1>3, <1>4, <1>5, <1>6, <1>7, <1>8, <1>9, <1>10

\* So do the polls of a report, and the answers that are lost.
LEMMA PollsTransact ==
    ASSUME CbaType, Transacts,
           \/ PollEnds \/ PollRaises \/ PollRestore \/ PollRestoreDown \/ PollRestoreTimeout
           \/ LosePoll \/ LoseCommit
    PROVE  CbaType' /\ Transacts'
<1> DEFINE Fine == Transacts' /\ Shaped(op') /\ IsSession(session')
                     /\ outcome' \in {"none", "running", "done", "failed"}
<1>0. ASSUME Fine, report' \in [state : States, own : BOOLEAN], online' = online,
             reload' = reload, polled' \in {polled, "RUNNING", "none", "SUCCESS"},
             UNCHANGED <<refused, foreign, early, reloaded>>
      PROVE  CbaType' /\ Transacts'
    BY <1>0 DEF CbaType, TypeOK, IsSession
<1> HIDE DEF Fine
<1>1. ASSUME Raise PROVE Fine
    BY <1>1, FailTransacts DEF Fine
<1>2. ASSUME Doing("poll_restore"), RestoreException, UNCHANGED <<config, refused>> PROVE Fine
    BY <1>1, <1>2, LeaveTransacts DEF RestoreException, Replacing, Fine
<1>3. CASE PollEnds
  <2>1. Doing("poll") /\ UNCHANGED <<config, refused>>
      BY <1>3 DEF PollEnds, history
  <2>2. Fine
    <3>1. CASE Raise
        BY <1>1, <3>1
    <3>2. CASE /\ session' = IF session.link = "up" THEN session ELSE [NoSession EXCEPT !.link = "up"]
               /\ Proceed
      <4>1. CASE session' = session
          BY <2>1, <3>2, <4>1, PassTransacts DEF Fine
      <4>2. CASE session' = [NoSession EXCEPT !.link = "up"]
        <5>1. session'.mode = "exec" /\ session'.pending = {} /\ IsSession(session')
            BY <4>2, Renewed
        <5>2. Proceed
            BY <3>2
        <5>3. QED BY <2>1, <5>1, <5>2, AtLine, SwitchTransacts, GoesOn DEF Replacing, Fine
      <4>3. QED BY <3>2, <4>1, <4>2
    <3>3. QED BY <1>3, <3>1, <3>2 DEF PollEnds
  <2>3. QED BY <1>0, <1>3, <2>2 DEF PollEnds, CbaType, TypeOK, history
<1>4. CASE PollRaises \/ PollRestoreTimeout
  <2>1. Fine
      BY <1>1, <1>4 DEF PollRaises, PollRestoreTimeout
  <2>2. QED BY <1>0, <1>4, <2>1 DEF PollRaises, PollRestoreTimeout, CbaType, TypeOK, history
<1>5. CASE PollRestore
  <2>1. Doing("poll_restore") /\ UNCHANGED <<config, refused>>
      BY <1>5 DEF PollRestore, history
  <2>2. Fine
    <3>1. CASE Raise
        BY <1>1, <3>1
    <3>2. CASE session' = NoSession /\ Proceed
        BY <2>1, <3>2, LeaveTransacts DEF Replacing, Fine
    <3>3. CASE session' = NoSession /\ UNCHANGED <<op, outcome>>
      <4>1. Transacts' /\ IsSession(session')
          BY <2>1, <3>3, AtLine, SwitchTransacts, Renewed DEF Replacing
      <4>2. QED BY <3>3, <4>1 DEF Fine, CbaType, TypeOK
    <3>4. QED BY <1>5, <3>1, <3>2, <3>3 DEF PollRestore
  <2>3. polled' \in {polled, "RUNNING", "none", "SUCCESS"}
      BY <1>5 DEF PollRestore
  <2>4. QED BY <1>0, <1>5, <2>2, <2>3 DEF PollRestore, CbaType, TypeOK, history
<1>6. CASE PollRestoreDown \/ LosePoll
  <2>1. Fine
      BY <1>2, <1>6 DEF PollRestoreDown, LosePoll, history
  <2>2. QED BY <1>0, <1>6, <2>1 DEF PollRestoreDown, LosePoll, CbaType, TypeOK, history
<1>7. CASE LoseCommit
  <2>1. Fine
      BY <1>1, <1>7 DEF LoseCommit
  <2>2. report' \in [state : States, own : BOOLEAN]
      BY <1>7 DEF LoseCommit, Committed, NoReport, States, CbaType, TypeOK
  <2>3. QED BY <1>0, <1>7, <2>1, <2>2 DEF LoseCommit, history, CbaType, TypeOK
<1>8. QED BY <1>3, <1>4, <1>5, <1>6, <1>7

\* So do a new operation, the node and its other clients.
LEMMA NodeTransacts ==
    ASSUME CbaType, Transacts, Sound,
           Begin \/ ActionEnds \/ OtherClient \/ NodeDown \/ NodeUp \/ LoseSession
    PROVE  CbaType' /\ Transacts'
<1>1. CASE Begin
  <2>1. WellFormed(op') /\ Shaped(op')
      BY <1>1 DEF Begin, Sound
  <2>2. Transacts'
      BY <1>1, <2>1, BeginTransacts
  <2>3. report' \in [state : States, own : BOOLEAN]
    <3>1. \A s \in States : [state |-> s, own |-> FALSE] \in [state : States, own : BOOLEAN]
        OBVIOUS
    <3>2. NoReport \in [state : States, own : BOOLEAN]
        BY DEF NoReport, States
    <3>3. report' = NoReport \/ \E s \in States : report' = [state |-> s, own |-> FALSE]
        BY <1>1 DEF Begin
    <3>4. QED BY <3>1, <3>2, <3>3
  <2>4. QED BY <1>1, <2>1, <2>2, <2>3 DEF Begin, CbaType, TypeOK
<1>2. CASE ActionEnds \/ OtherClient \/ NodeUp
  <2>1. UNCHANGED <<session, op, outcome, config, refused>>
      BY <1>2 DEF ActionEnds, OtherClient, NodeUp, history
  <2>2. Transacts'
      BY <2>1, SameTransacts
  <2>3. report' \in [state : States, own : BOOLEAN]
    <3>1. report \in [state : States, own : BOOLEAN]
        BY DEF CbaType, TypeOK
    <3>2. CASE ActionEnds
        BY <3>1, <3>2 DEF ActionEnds, States
    <3>3. CASE OtherClient
        BY <3>3 DEF OtherClient, States
    <3>4. CASE NodeUp
        BY <3>1, <3>4 DEF NodeUp
    <3>5. QED BY <1>2, <3>2, <3>3, <3>4
  <2>4. CASE ActionEnds
    <3>1. /\ reload' \in BOOLEAN
          /\ UNCHANGED <<online, polled, refused, foreign, early, reloaded>>
        BY <2>4 DEF ActionEnds, history, CbaType, TypeOK
    <3>2. QED BY <2>1, <2>2, <2>3, <3>1 DEF CbaType, TypeOK
  <2>5. CASE OtherClient
      BY <2>1, <2>2, <2>3, <2>5 DEF OtherClient, CbaType, TypeOK
  <2>6. CASE NodeUp
      BY <2>1, <2>2, <2>3, <2>6 DEF NodeUp, history, CbaType, TypeOK
  <2>7. QED BY <1>2, <2>4, <2>5, <2>6
<1>3. CASE NodeDown \/ LoseSession
  <2>1. UNCHANGED <<op, outcome, config, refused, polled, foreign>>
      BY <1>3 DEF NodeDown, LoseSession, history
  <2>2. session' \in {session, [session EXCEPT !.link = "broken"]}
      BY <1>3 DEF NodeDown, LoseSession
  <2>3. IsSession(session') /\ session'.mode = session.mode /\ session'.pending = session.pending
      BY <2>2, Renewed
  <2>4. Transacts'
      BY <2>1, <2>3, SameTransacts
  <2>5. report' \in [state : States, own : BOOLEAN]
    <3>1. report \in [state : States, own : BOOLEAN] /\ NoReport \in [state : States, own : BOOLEAN]
        BY DEF CbaType, TypeOK, NoReport, States
    <3>2. report' \in {report, NoReport}
        BY <1>3 DEF NodeDown, LoseSession
    <3>3. QED BY <3>1, <3>2
  <2>6. {online', reload', early', reloaded'} \subseteq BOOLEAN
      BY <1>3 DEF NodeDown, LoseSession, history, CbaType, TypeOK
  <2>7. session'.link \in {"none", "up", "broken"} /\ session'.mode \in {"exec", "config"}
      BY <2>3 DEF IsSession
  <2>8. QED BY <2>1, <2>3, <2>4, <2>5, <2>6, <2>7 DEF CbaType, TypeOK
<1>4. QED BY <1>1, <1>2, <1>3

-----------------------------------------------------------------------------
\* A poll still to come without a request before it reads the operation's own report.
Reported ==
    /\ Goes /\ ~foreign /\ (op.name \in Unlooked => ~refused) /\ Awaits(op.prog)
          => report.own \/ report.state = "none"
    /\ op.name \notin Unlooked => Looked(op.prog)
    /\ ~online => session.link # "up" /\ ~report.own

\* run_CBA_restore_backup after its wait for the broken connection.
Restores ==
    Goes /\ op.name = "restore_backup" =>
        /\ Reloads(op.prog)
        /\ ~online /\ ~reloaded => Has(op.prog, "open")
        /\ Has(op.prog, "wait_broken") \/ Quiet(op.prog)
        /\ ~early => \/ Has(op.prog, "wait_broken")
                     \/ reloaded /\ ~report.own /\ (online => ~reload)
        /\ ~early /\ outcome = "done" => online

\* A call that raises waits for no report.
LEMMA StopsReports ==
    ASSUME CbaType, Raise, ~online' => ~report'.own
    PROVE  Reported' /\ Restores'
<1>1. op'.prog = <<>> /\ outcome' = "failed" /\ session'.link = "none"
    BY Stops
<1>2. Looked(<<>>)
    BY Nothing
<1>3. QED BY <1>1, <1>2 DEF Reported, Restores, Goes

\* What is known of the requests and the polls when a line is done.
LEMMA GoesOnReports ==
    ASSUME CbaType, Transacts, Reported, outcome = "running", Proceed
    PROVE  /\ op'.name \notin Unlooked => Looked(op'.prog)
           /\ Awaits(op'.prog) /\ Line1.do # "request" => Awaits(op.prog)
           /\ Line1.do = "request" /\ ~Line1.checked => op.name \in Unlooked
           /\ op'.name = op.name /\ Goes /\ Goes'
<1>1. /\ op.prog # <<>> /\ IsProgram(op.prog) /\ op'.prog = Tail(op.prog) /\ Line1 = op.prog[1]
      /\ op'.name = op.name /\ outcome' \in {"running", "done"}
    BY GoesOn
<1>2. QED BY <1>1, RestTail, OrderTail DEF Reported, Goes

\* A line done that changes nothing the polls read.
LEMMA PassReports ==
    ASSUME CbaType, Transacts, Reported, outcome = "running", Proceed, Line1.do # "request",
           report' = report, online' = online, foreign' = foreign,
           refused => refused', ~online => session'.link # "up"
    PROVE  Reported'
BY GoesOnReports DEF Reported

\* A commit may take the report of a job away, never bring one.
LEMMA CommittedReports ==
    ASSUME CbaType, Transacts, Reported, Committed, outcome = "running", Proceed,
           Line1.do # "request", online' = online, foreign' = foreign, refused' = refused,
           ~online => session'.link # "up"
    PROVE  Reported'
<1>1. report' = NoReport \/ report' = report
    BY DEF Committed
<1>2. NoReport.state = "none" /\ ~NoReport.own
    BY DEF NoReport
<1>3. QED BY <1>1, <1>2, GoesOnReports DEF Reported

\* Every step leaves the operation with the report of its own action, if any.
LEMMA ReportedKeeps ==
    ASSUME CbaType, Transacts, Sound, Reported, CbaNext
    PROVE  Reported'
<1>0. ASSUME NEW do, Doing(do) PROVE outcome = "running" /\ Line1.do = do
    BY <1>0, AtLine
<1>1. CASE Begin
  <2>1. WellFormed(op') /\ session' = session /\ online' = online /\ report' \in {report'}
      BY <1>1 DEF Begin, Sound
  <2>2. ~report'.own
    <3>1. report' = NoReport \/ \E s \in States : report' = [state |-> s, own |-> FALSE]
        BY <1>1 DEF Begin
    <3>2. QED BY <3>1 DEF NoReport
  <2>3. QED BY <2>1, <2>2 DEF Reported, WellFormed
<1>2. CASE start_CBACliss
  <2>1. /\ outcome = "running" /\ Line1.do = "open"
        /\ UNCHANGED <<report, online, foreign, refused>>
      BY <1>0, <1>2 DEF start_CBACliss, history
  <2>2. CASE Raise
      BY <2>1, <2>2, StopsReports DEF Reported
  <2>3. CASE online /\ Proceed
      BY <2>1, <2>3, PassReports
  <2>4. QED BY <1>2, <2>2, <2>3 DEF start_CBACliss
<1>3. CASE close_connection
  <2>1. /\ outcome = "running" /\ Line1.do = "close" /\ session'.link = "none" /\ Proceed
        /\ UNCHANGED <<report, online, foreign, refused>>
      BY <1>0, <1>3, Renewed DEF close_connection, history
  <2>2. QED BY <2>1, PassReports
<1>4. CASE SendConfigure \/ SendEdit
  <2>1. /\ outcome = "running" /\ Line1.do \in {"configure", "edit"} /\ session.link = "up"
        /\ UNCHANGED <<report, online, foreign>>
      BY <1>0, <1>4 DEF SendConfigure, SendEdit
  <2>2. CASE Raise
      BY <2>1, <2>2, StopsReports DEF Reported
  <2>3. CASE Proceed /\ (refused => refused')
      BY <2>1, <2>3, PassReports DEF Reported
  <2>4. Raise \/ (Proceed /\ (refused => refused'))
      BY <1>4 DEF SendConfigure, SendEdit, OnError
  <2>5. QED BY <2>2, <2>3, <2>4
<1>5. CASE SendCommit
  <2>1. /\ outcome = "running" /\ Line1.do = "commit" /\ session.link = "up"
        /\ UNCHANGED <<online, foreign>>
      BY <1>0, <1>5 DEF SendCommit
  <2>2. CASE Raise /\ UNCHANGED report
      BY <2>1, <2>2, StopsReports DEF Reported
  <2>3. CASE Proceed /\ (refused => refused') /\ UNCHANGED report
      BY <2>1, <2>3, PassReports DEF Reported
  <2>4. CASE Committed /\ Proceed /\ UNCHANGED refused
      BY <2>1, <2>4, CommittedReports DEF Reported
  <2>5. \/ Raise /\ UNCHANGED report
        \/ Proceed /\ (refused => refused') /\ UNCHANGED report
        \/ Committed /\ Proceed /\ UNCHANGED refused
      BY <1>5 DEF SendCommit, OnError
  <2>6. QED BY <2>2, <2>3, <2>4, <2>5
<1>6. CASE Reading \/ CodeRaises \/ RunCommand \/ PutCommand \/ SendReboot \/ Reconnect
             \/ WaitBroken \/ WaitReload \/ SendOnBroken
  <2>1. /\ UNCHANGED <<report, online, foreign>>
        /\ Raise \/ (Proceed /\ session' = session /\ (refused => refused'))
      BY <1>6 DEF Reading, CodeRaises, RunCommand, PutCommand, SendReboot, Reconnect,
                  WaitBroken, WaitReload, SendOnBroken, OnError, history
  <2>2. CASE Raise
      BY <2>1, <2>2, StopsReports DEF Reported
  <2>3. CASE Proceed /\ session' = session /\ (refused => refused')
    <3>1. CASE SendOnBroken \/ CodeRaises
        BY <2>1, <3>1, StopsReports DEF SendOnBroken, CodeRaises, Reported
    <3>2. CASE Reading \/ RunCommand \/ PutCommand \/ SendReboot \/ Reconnect \/ WaitBroken
                 \/ WaitReload
      <4>1. PICK do \in {"look", "call", "run", "put", "reboot", "reconnect", "wait_broken",
                         "wait_reload"} : Doing(do)
          BY <3>2 DEF Reading, RunCommand, PutCommand, SendReboot, Reconnect, WaitBroken, WaitReload
      <4>2. outcome = "running" /\ Line1.do # "request"
          BY <1>0, <4>1
      <4>3. QED BY <2>1, <2>3, <4>2, PassReports DEF Reported
    <3>3. QED BY <1>6, <3>1, <3>2
  <2>4. QED BY <2>1, <2>2, <2>3
<1>7. CASE SendRequest
  <2>1. /\ outcome = "running" /\ Line1.do = "request" /\ session.link = "up"
        /\ UNCHANGED <<online, foreign>>
      BY <1>0, <1>7 DEF SendRequest
  <2>2. online
      BY <2>1 DEF Reported
  <2>3. CASE Raise
      BY <2>1, <2>2, <2>3, StopsReports
  <2>4. CASE report' = [state |-> "RUNNING", own |-> TRUE] /\ Proceed
      BY <2>1, <2>2, <2>4, GoesOnReports DEF Reported
  <2>5. CASE Proceed /\ refused' = TRUE /\ ~Line1.checked
      BY <2>1, <2>2, <2>5, GoesOnReports DEF Reported
  <2>6. QED BY <1>7, <2>3, <2>4, <2>5 DEF SendRequest, OnError
<1>8. CASE PollEnds
  <2>1. /\ outcome = "running" /\ Line1.do = "poll" /\ online
        /\ UNCHANGED <<report, online, foreign, refused>>
      BY <1>0, <1>8 DEF PollEnds, Reaches, history
  <2>2. CASE Raise
      BY <2>1, <2>2, StopsReports
  <2>3. CASE Proceed
      BY <2>1, <2>3, PassReports
  <2>4. QED BY <1>8, <2>2, <2>3 DEF PollEnds
<1>9. CASE PollRaises \/ PollRestoreTimeout
  <2>1. Raise /\ UNCHANGED <<report, online>>
      BY <1>9 DEF PollRaises, PollRestoreTimeout
  <2>2. QED BY <2>1, StopsReports DEF Reported
<1>10. CASE PollRestore
  <2>1. /\ outcome = "running" /\ Line1.do = "poll_restore" /\ online
        /\ UNCHANGED <<report, online, foreign, refused>>
      BY <1>0, <1>10 DEF PollRestore, history
  <2>2. CASE Raise
      BY <2>1, <2>2, StopsReports
  <2>3. CASE Proceed
      BY <2>1, <2>3, PassReports
  <2>4. CASE UNCHANGED <<op, outcome>>
      BY <2>1, <2>4 DEF Reported, Goes
  <2>5. QED BY <1>10, <2>2, <2>3, <2>4 DEF PollRestore
<1>11. CASE PollRestoreDown \/ LosePoll
  <2>1. UNCHANGED <<report, online, foreign, refused>>
      BY <1>11 DEF PollRestoreDown, LosePoll, history
  <2>2. outcome = "running" /\ Line1.do # "request"
      BY <1>0, <1>11 DEF PollRestoreDown, LosePoll
  <2>3. CASE Raise
      BY <2>1, <2>3, StopsReports DEF Reported
  <2>4. CASE Proceed /\ session' \in {session, NoSession}
      BY <2>1, <2>2, <2>4, PassReports, Renewed DEF Reported
  <2>5. QED BY <1>11, <2>3, <2>4 DEF PollRestoreDown, LosePoll, RestoreException
<1>12. CASE ActionEnds
  <2>1. UNCHANGED <<session, op, outcome, online, refused, foreign>> /\ report'.own = report.own
           /\ report.state = "RUNNING"
      BY <1>12 DEF ActionEnds, history, CbaType, TypeOK
  <2>2. QED BY <2>1 DEF Reported, Goes
<1>13. CASE OtherClient
    BY <1>13 DEF OtherClient, Reported
<1>14. CASE NodeDown
  <2>1. UNCHANGED <<op, outcome, refused, foreign>> /\ report' = NoReport
      BY <1>14 DEF NodeDown
  <2>2. session'.link # "up"
      BY <1>14, Renewed DEF NodeDown
  <2>3. QED BY <2>1, <2>2 DEF Reported, NoReport
<1>15. CASE NodeUp
  <2>1. UNCHANGED <<session, op, outcome, report, refused, foreign>> /\ online'
      BY <1>15 DEF NodeUp, history
  <2>2. QED BY <2>1 DEF Reported, Goes
<1>16. CASE LoseSession
  <2>1. UNCHANGED <<op, outcome, report, online, refused, foreign>> /\ online
      BY <1>16 DEF LoseSession, history
  <2>2. QED BY <2>1 DEF Reported, Goes
<1>17. CASE LoseCommit
  <2>1. Raise /\ online' = online /\ report' \in {report, NoReport}
      BY <1>17 DEF LoseCommit, Committed
  <2>2. QED BY <2>1, StopsReports DEF Reported, NoReport
<1>18. QED BY <1>1, <1>2, <1>3, <1>4, <1>5, <1>6, <1>7, <1>8, <1>9, <1>10, <1>11, <1>12, <1>13,
              <1>14, <1>15, <1>16, <1>17 DEF CbaNext, Step

\* One line of run_CBA_restore_backup done.
LEMMA PassRestores ==
    ASSUME CbaType, Transacts, Reported, Restores, outcome = "running", Proceed,
           online' = online, reloaded' = reloaded,
           early => early' \/ Line1.do = "wait_broken",
           reload' = reload \/ Line1.do = "reboot",
           report'.own => report.own \/ Line1.do = "request",
           Line1.do \in {"open", "wait_reload"} => online,
           Line1.do = "wait_broken" => ~online \/ early'
    PROVE  Restores'
<1> DEFINE p == op.prog
<1>1. /\ p # <<>> /\ IsProgram(p) /\ Line1 = p[1] /\ op'.prog = Tail(p) /\ op'.name = op.name
      /\ outcome' \in {"running", "done"} /\ (outcome' = "running" <=> op'.prog # <<>>)
    BY GoesOn
<1>2. \A do : Has(p, do) <=> p[1].do = do \/ Has(Tail(p), do)
    BY <1>1, HasHead
<1>3. Quiet(p) => Quiet(Tail(p)) /\ p[1].do \notin {"open", "request"}
    BY <1>2 DEF Quiet
<1> HIDE DEF p
<1>4. SUFFICES ASSUME op.name = "restore_backup" PROVE Restores'
    BY <1>1 DEF Restores
<1>5. /\ Reloads(p)
      /\ ~online /\ ~reloaded => Has(p, "open")
      /\ Has(p, "wait_broken") \/ Quiet(p)
      /\ ~early => Has(p, "wait_broken") \/ (reloaded /\ ~report.own /\ (online => ~reload))
    BY <1>4 DEF Restores, Goes, p
<1>6. /\ Reloads(Tail(p)) /\ p[1].do # "reboot"
      /\ p[1].do = "wait_broken" => Quiet(p) /\ Quiet(Tail(p))
      /\ Tail(p) = <<>> => p[1].do = "wait_reload"
    BY <1>1, <1>5, ReloadsTail
<1>7. ~online /\ ~reloaded => Has(Tail(p), "open")
    BY <1>1, <1>2, <1>5
<1>8. Has(Tail(p), "wait_broken") \/ Quiet(Tail(p))
    BY <1>2, <1>3, <1>5, <1>6
<1>9. ASSUME ~early' PROVE Has(Tail(p), "wait_broken")
                              \/ (reloaded /\ ~report'.own /\ (online => ~reload))
  <2>1. CASE p[1].do = "wait_broken"
    <3>1. ~online /\ ~report.own
        BY <1>1, <1>9, <2>1 DEF Reported
    <3>2. reloaded
        BY <1>5, <1>6, <2>1, <3>1 DEF Quiet
    <3>3. QED BY <1>1, <2>1, <3>1, <3>2
  <2>2. CASE p[1].do # "wait_broken" /\ p[1].do = "request"
      BY <1>2, <1>3, <1>5, <2>2
  <2>3. CASE p[1].do # "wait_broken" /\ p[1].do # "request"
      BY <1>1, <1>2, <1>5, <1>9, <2>3
  <2>4. QED BY <2>1, <2>2, <2>3
<1>10. outcome' = "done" => online
    BY <1>1, <1>6
<1>11. QED BY <1>1, <1>6, <1>7, <1>8, <1>9, <1>10 DEF Restores

\* A step that leaves the operation where it is.
LEMMA SameRestores ==
    ASSUME CbaType, Restores,
           UNCHANGED <<op, outcome, online, reload, reloaded>>,
           early => early', report'.own => report.own
    PROVE  Restores'
BY DEF Restores, Goes

\* Every step keeps what run_CBA_restore_backup knows of the reload.
LEMMA RestoresKeeps ==
    ASSUME CbaType, Transacts, Sound, Reported, Restores, CbaNext
    PROVE  Restores'
<1>0. ASSUME NEW do, Doing(do) PROVE outcome = "running" /\ Line1.do = do
    BY <1>0, AtLine
<1>a. ASSUME Raise PROVE Restores'
    BY <1>a, Stops DEF Restores, Goes
<1>1. CASE Begin
  <2>1. WellFormed(op')
      BY <1>1 DEF Begin, Sound
  <2>2. outcome' = (IF op'.prog = <<>> THEN "done" ELSE "running")
      BY <1>1 DEF Begin
  <2>3. QED BY <2>1, <2>2 DEF Restores, WellFormed
<1>2. CASE start_CBACliss \/ WaitReload
  <2>1. PICK do \in {"open", "wait_reload"} : Doing(do)
      BY <1>2 DEF start_CBACliss, WaitReload
  <2>2. UNCHANGED <<report, online, reload, reloaded, early>>
      BY <1>2 DEF start_CBACliss, WaitReload, history
  <2>3. Raise \/ (Proceed /\ online)
      BY <1>2 DEF start_CBACliss, WaitReload
  <2>4. ASSUME Proceed, online PROVE Restores'
      BY <1>0, <2>1, <2>2, <2>4, PassRestores
  <2>5. QED BY <1>a, <2>3, <2>4
<1>3. CASE \/ close_connection \/ SendConfigure \/ SendEdit \/ SendCommit \/ Reading
           \/ RunCommand \/ PutCommand \/ Reconnect \/ SendRequest
  <2>1. PICK do \in {"close", "configure", "edit", "commit", "look", "call", "run", "put",
                     "reconnect", "request"} : Doing(do)
      BY <1>3 DEF close_connection, SendConfigure, SendEdit, SendCommit, Reading, RunCommand,
                  PutCommand, Reconnect, SendRequest
  <2>2. UNCHANGED <<online, reload, reloaded, early>>
      BY <1>3 DEF close_connection, SendConfigure, SendEdit, SendCommit, Reading, RunCommand,
                  PutCommand, Reconnect, SendRequest, history
  <2>3. Raise \/ Proceed
      BY <1>3 DEF close_connection, SendConfigure, SendEdit, SendCommit, Reading, RunCommand,
                  PutCommand, Reconnect, SendRequest, OnError
  <2>4. report' \in {report, NoReport} \/ Doing("request")
      BY <1>3 DEF close_connection, SendConfigure, SendEdit, SendCommit, Reading, RunCommand,
                  PutCommand, Reconnect, SendRequest, Committed, OnError
  <2>5. ASSUME Proceed PROVE Restores'
    <3>1. outcome = "running" /\ Line1.do = do
        BY <1>0, <2>1
    <3>2. report'.own => report.own \/ Line1.do = "request"
        BY <1>0, <2>4 DEF NoReport
    <3>3. Line1.do \notin {"open", "wait_reload", "wait_broken"}
        BY <3>1
    <3>4. QED BY <2>2, <2>5, <3>1, <3>2, <3>3, PassRestores
  <2>6. QED BY <1>a, <2>3, <2>5
<1>4. CASE CodeRaises \/ SendOnBroken \/ PollRaises \/ PollRestoreTimeout \/ LoseCommit
    BY <1>4, <1>a DEF CodeRaises, SendOnBroken, PollRaises, PollRestoreTimeout, LoseCommit
<1>5. CASE SendReboot
  <2>1. outcome = "running" /\ Line1.do = "reboot" /\ UNCHANGED <<report, online, reloaded, early>>
      BY <1>0, <1>5 DEF SendReboot, history
  <2>2. Raise \/ Proceed
      BY <1>5 DEF SendReboot
  <2>3. ASSUME Proceed PROVE Restores'
      BY <2>1, <2>3, PassRestores
  <2>4. QED BY <1>a, <2>2, <2>3
<1>6. CASE PollEnds
  <2>1. /\ outcome = "running" /\ Line1.do = "poll"
        /\ UNCHANGED <<report, online, reload, reloaded, early>>
      BY <1>0, <1>6 DEF PollEnds, history
  <2>2. Raise \/ Proceed
      BY <1>6 DEF PollEnds
  <2>3. ASSUME Proceed PROVE Restores'
      BY <2>1, <2>3, PassRestores
  <2>4. QED BY <1>a, <2>2, <2>3
<1>7. CASE PollRestore \/ PollRestoreDown \/ LosePoll
  <2>1. /\ outcome = "running" /\ Line1.do = "poll_restore"
        /\ UNCHANGED <<report, online, reload, reloaded, early>>
      BY <1>0, <1>7 DEF PollRestore, PollRestoreDown, LosePoll, history
  <2>2. Raise \/ Proceed \/ UNCHANGED <<op, outcome>>
      BY <1>7 DEF PollRestore, PollRestoreDown, LosePoll, RestoreException
  <2>3. ASSUME Proceed PROVE Restores'
      BY <2>1, <2>3, PassRestores
  <2>4. ASSUME UNCHANGED <<op, outcome>> PROVE Restores'
      BY <2>1, <2>4, SameRestores
  <2>5. QED BY <1>a, <2>2, <2>3, <2>4
<1>8. CASE WaitBroken
  <2>1. outcome = "running" /\ Line1.do = "wait_broken"
      BY <1>0, <1>8 DEF WaitBroken
  <2>2. Proceed /\ early' = online /\ UNCHANGED <<report, online, reload, reloaded>>
      BY <1>8 DEF WaitBroken
  <2>3. QED BY <2>1, <2>2, PassRestores
<1>10. CASE ActionEnds
  <2>1. /\ UNCHANGED <<op, outcome, online, early, reloaded>> /\ report'.own = report.own
        /\ online /\ reload' = (reload \/ reload') /\ (reload' => reload \/ Restoring)
      BY <1>10 DEF ActionEnds, history, CbaType, TypeOK
  <2>2. Restoring => report.own
      BY DEF Restoring
  <2>3. QED BY <2>1, <2>2 DEF Restores, Goes
<1>11. CASE OtherClient
  <2>1. UNCHANGED <<op, outcome, online, reload, reloaded, early>> /\ ~report'.own
      BY <1>11 DEF OtherClient
  <2>2. QED BY <2>1, SameRestores
<1>12. CASE NodeDown
  <2>1. /\ UNCHANGED <<op, outcome, early>> /\ online /\ (reload \/ report.own) /\ ~online'
        /\ reloaded' /\ report' = NoReport
      BY <1>12 DEF NodeDown, Restoring
  <2>2. ~report'.own
      BY <2>1 DEF NoReport
  <2>3. outcome = "done" => op.prog = <<>>
      BY DEF Transacts
  <2>4. ~Has(<<>>, "wait_broken")
      BY Nothing
  <2>5. QED BY <2>1, <2>2, <2>3, <2>4 DEF Restores, Goes
<1>13. CASE NodeUp
  <2>1. UNCHANGED <<op, outcome, report, early, reloaded>> /\ online' /\ ~reload'
      BY <1>13 DEF NodeUp, history
  <2>2. QED BY <2>1 DEF Restores, Goes
<1>14. CASE LoseSession
  <2>1. UNCHANGED <<op, outcome, report, online, reload, reloaded, early>>
      BY <1>14 DEF LoseSession, history
  <2>2. QED BY <2>1, SameRestores
<1>15. QED BY <1>1, <1>2, <1>3, <1>4, <1>5, <1>6, <1>7, <1>8, <1>10, <1>11, <1>12, <1>13,
              <1>14 DEF CbaNext, Step

-----------------------------------------------------------------------------
(* Programs put together from programs.                                       *)
\* None of the lines after line n is one of the stops.
Clear(prog, n, stops) == \A k \in (n + 1) .. Len(prog) : prog[k].do \notin stops

\* The lines of two programs, one after the other.
LEMMA Joined ==
    ASSUME NEW p, IsProgram(p), NEW q, IsProgram(q)
    PROVE  /\ IsProgram(p \o q) /\ Len(p \o q) = Len(p) + Len(q) /\ Len(p) \in Nat /\ Len(q) \in Nat
           /\ \A i \in 1 .. Len(p) : (p \o q)[i] = p[i]
           /\ \A i \in 1 .. Len(q) : (p \o q)[Len(p) + i] = q[i]
<1>1. PICK S, T : p \in Seq(S) /\ q \in Seq(T)
    BY DEF IsProgram
<1> DEFINE U == S \cup T
<1>2. p \in Seq(U) /\ q \in Seq(U)
    BY <1>1
<1> HIDE DEF U
<1>3. /\ p \o q \in Seq(U) /\ Len(p \o q) = Len(p) + Len(q) /\ Len(p) \in Nat /\ Len(q) \in Nat
      /\ \A i \in 1 .. Len(p) : (p \o q)[i] = p[i]
      /\ \A i \in 1 .. Len(q) : (p \o q)[Len(p) + i] = q[i]
    BY <1>2
<1>4. IsProgram(p \o q)
    BY <1>3, Zenon DEF IsProgram
<1>5. QED BY <1>3, <1>4

\* r is q behind p.
Joint(p, q, r) ==
    /\ IsProgram(r) /\ Len(r) = Len(p) + Len(q) /\ Len(p) \in Nat /\ Len(q) \in Nat
    /\ \A i \in 1 .. Len(p) : r[i] = p[i]
    /\ \A i \in 1 .. Len(q) : r[Len(p) + i] = q[i]

\* Joined, for a program by its name.
LEMMA JoinedIs ==
    ASSUME NEW p, IsProgram(p), NEW q, IsProgram(q), NEW r, r = p \o q
    PROVE  Joint(p, q, r)
BY Joined DEF Joint

\* Before, in the second of two programs.
LEMMA BeforeLater ==
    ASSUME NEW p, IsProgram(p), NEW q, IsProgram(q), NEW n \in Nat, NEW do, NEW stops
    PROVE  Before(p \o q, Len(p) + n, do, stops) <=> Before(q, n, do, stops)
<1> DEFINE r == p \o q
           l == Len(p)
<1>1. /\ Len(r) = l + Len(q) /\ l \in Nat /\ Len(q) \in Nat
      /\ \A i \in 1 .. Len(q) : r[l + i] = q[i]
    BY Joined
<1> HIDE DEF r, l
<1>2. ASSUME Before(r, l + n, do, stops) PROVE Before(q, n, do, stops)
  <2>1. PICK j \in (l + n + 1) .. Len(r) :
           r[j].do = do /\ \A k \in (l + n + 1) .. (j - 1) : r[k].do \notin stops
      BY <1>2 DEF Before
  <2>2. j - l \in (n + 1) .. Len(q) /\ l + (j - l) = j
      BY <1>1, <2>1
  <2>3. q[j - l].do = do
    <3>1. j - l \in 1 .. Len(q)
        BY <2>2
    <3>2. r[l + (j - l)] = q[j - l]
        BY <1>1, <3>1
    <3>3. QED BY <2>1, <2>2, <3>2
  <2>4. ASSUME NEW k \in (n + 1) .. (j - l - 1) PROVE q[k].do \notin stops
    <3>1. k \in 1 .. Len(q) /\ l + k \in (l + n + 1) .. (j - 1)
        BY <1>1, <2>1, <2>2
    <3>2. QED BY <1>1, <2>1, <3>1
  <2>5. (j - l) - 1 = j - l - 1
      BY <1>1, <2>1
  <2>6. QED BY <2>2, <2>3, <2>4, <2>5 DEF Before
<1>3. ASSUME Before(q, n, do, stops) PROVE Before(r, l + n, do, stops)
  <2>1. PICK j \in (n + 1) .. Len(q) :
           q[j].do = do /\ \A k \in (n + 1) .. (j - 1) : q[k].do \notin stops
      BY <1>3 DEF Before
  <2>2. l + j \in (l + n + 1) .. Len(r) /\ r[l + j] = q[j]
      BY <1>1, <2>1
  <2>3. ASSUME NEW k \in (l + n + 1) .. (l + j - 1) PROVE r[k].do \notin stops
    <3>1. k - l \in (n + 1) .. (j - 1) /\ k - l \in 1 .. Len(q) /\ l + (k - l) = k
        BY <1>1, <2>1
    <3>2. r[l + (k - l)] = q[k - l]
        BY <1>1, <3>1
    <3>3. QED BY <2>1, <3>1, <3>2
  <2>4. r[l + j].do = do /\ (l + n) + 1 = l + n + 1 /\ (l + j) - 1 = l + j - 1
      BY <1>1, <2>1, <2>2
  <2> DEFINE e == l + j
             f == l + n
  <2>5. /\ e \in (f + 1) .. Len(r) /\ r[e].do = do
        /\ \A k \in (f + 1) .. (e - 1) : r[k].do \notin stops
      BY <2>2, <2>3, <2>4
  <2> HIDE DEF e, f
  <2>6. Before(r, f, do, stops)
      BY <2>5 DEF Before
  <2>7. QED BY <2>6 DEF f
<1>4. QED BY <1>2, <1>3 DEF r, l

\* Before, from a line of the first of two programs on.
LEMMA BeforeOver ==
    ASSUME NEW p, IsProgram(p), NEW q, IsProgram(q), NEW n \in 0 .. Len(p), NEW do, NEW stops
    PROVE  Before(p \o q, n, do, stops) <=>
              Before(p, n, do, stops) \/ (Clear(p, n, stops) /\ Before(q, 0, do, stops))
<1> DEFINE r == p \o q
           l == Len(p)
<1>1. /\ Len(r) = l + Len(q) /\ l \in Nat /\ Len(q) \in Nat
      /\ \A i \in 1 .. l : r[i] = p[i]
      /\ \A i \in 1 .. Len(q) : r[l + i] = q[i]
  <2> HIDE DEF r
  <2>1. r = p \o q
      BY DEF r
  <2>2. Joint(p, q, r)
      BY <2>1, JoinedIs
  <2>3. QED BY <2>2 DEF Joint
<1>2. Before(r, l, do, stops) <=> Before(q, 0, do, stops)
  <2>1. 0 \in Nat /\ l + 0 = l
      BY <1>1
  <2>2. Before(r, l + 0, do, stops) <=> Before(q, 0, do, stops)
      BY <2>1, BeforeLater, Zenon
  <2>3. QED BY <2>1, <2>2
<1> HIDE DEF r
<1>3. ASSUME Before(r, n, do, stops), ~Before(p, n, do, stops)
      PROVE  Clear(p, n, stops) /\ Before(r, l, do, stops)
  <2>1. PICK j \in (n + 1) .. Len(r) :
           r[j].do = do /\ \A k \in (n + 1) .. (j - 1) : r[k].do \notin stops
      BY <1>3 DEF Before
  <2>2. CASE j <= l
    <3>1. j \in (n + 1) .. l /\ \A k \in (n + 1) .. j : k \in 1 .. l
        BY <1>1, <2>1, <2>2
    <3>2. p[j].do = do /\ \A k \in (n + 1) .. (j - 1) : p[k].do \notin stops
        BY <1>1, <2>1, <3>1
    <3>3. QED BY <1>3, <3>1, <3>2 DEF Before
  <2>3. CASE j > l
    <3>1. j \in (l + 1) .. Len(r) /\ \A k \in (l + 1) .. (j - 1) : k \in (n + 1) .. (j - 1)
        BY <1>1, <2>1, <2>3
    <3>2. \A k \in (n + 1) .. l : k \in (n + 1) .. (j - 1) /\ r[k] = p[k]
        BY <1>1, <2>1, <2>3
    <3>3. QED BY <2>1, <3>1, <3>2 DEF Before, Clear
  <2>4. QED BY <1>1, <2>1, <2>2, <2>3
<1>4. ASSUME Before(p, n, do, stops) PROVE Before(r, n, do, stops)
  <2>1. PICK j \in (n + 1) .. l :
           p[j].do = do /\ \A k \in (n + 1) .. (j - 1) : p[k].do \notin stops
      BY <1>4 DEF Before
  <2>2. j \in (n + 1) .. Len(r) /\ \A k \in (n + 1) .. j : k \in 1 .. l
      BY <1>1, <2>1
  <2>3. r[j].do = do
      BY <1>1, <2>1, <2>2
  <2>4. ASSUME NEW k \in (n + 1) .. (j - 1) PROVE r[k].do \notin stops
    <3>1. k \in (n + 1) .. j
        BY <2>1
    <3>2. r[k] = p[k]
        BY <1>1, <2>2, <3>1
    <3>3. QED BY <2>1, <3>2
  <2>5. QED BY <2>2, <2>3, <2>4 DEF Before
<1>5. ASSUME Clear(p, n, stops), Before(r, l, do, stops) PROVE Before(r, n, do, stops)
  <2>1. PICK j \in (l + 1) .. Len(r) :
           r[j].do = do /\ \A k \in (l + 1) .. (j - 1) : r[k].do \notin stops
      BY <1>5 DEF Before
  <2>2. j \in (n + 1) .. Len(r)
      BY <1>1, <2>1
  <2>3. ASSUME NEW k \in (n + 1) .. (j - 1) PROVE r[k].do \notin stops
    <3>1. CASE k <= l
      <4>1. k \in (n + 1) .. l /\ r[k] = p[k]
          BY <1>1, <3>1
      <4>2. QED BY <1>5, <4>1 DEF Clear
    <3>2. CASE k > l
      <4>1. k \in (l + 1) .. (j - 1)
          BY <1>1, <2>1, <3>2
      <4>2. QED BY <2>1, <4>1
    <3>3. QED BY <1>1, <3>1, <3>2
  <2>4. QED BY <2>1, <2>2, <2>3 DEF Before
<1>6. QED BY <1>2, <1>3, <1>4, <1>5 DEF r

\* Two programs that keep their transactions whole, one after the other.
LEMMA PartsJoined ==
    ASSUME NEW p, IsProgram(p), NEW q, IsProgram(q), Whole(p), Whole(q)
    PROVE  Whole(p \o q)
<1> DEFINE r == p \o q
           l == Len(p)
<1>1. /\ Len(r) = l + Len(q) /\ l \in Nat /\ Len(q) \in Nat
      /\ \A i \in 1 .. l : r[i] = p[i]
      /\ \A i \in 1 .. Len(q) : r[l + i] = q[i]
  <2> HIDE DEF r
  <2>1. r = p \o q
      BY DEF r
  <2>2. Joint(p, q, r)
      BY <2>1, JoinedIs
  <2>3. QED BY <2>2 DEF Joint
<1>2. \A n \in Nat : /\ Held(r, l + n) <=> Held(q, n)
                     /\ Editing(r, l + n) <=> Editing(q, n)
                     /\ Closing(r, l + n) <=> Closing(q, n)
    BY BeforeLater DEF Held, Editing, Closing
<1>3. \A n \in 0 .. l : /\ Held(p, n) => Held(r, n)
                        /\ Editing(r, n) => Editing(p, n) \/ (Clear(p, n, {"configure"}) /\ Editing(q, 0))
                        /\ Closing(p, n) => Closing(r, n)
                        /\ Clear(p, n, {"configure"}) /\ Closing(q, 0) => Closing(r, n)
    BY BeforeOver DEF Held, Editing, Closing
<1> HIDE DEF r
<1>4. ASSUME NEW n \in 0 .. l, Editing(p, n) => Closing(p, n), Editing(r, n) PROVE Closing(r, n)
    BY <1>3, <1>4 DEF Whole
<1>5. Editing(p, 0) => Closing(p, 0)
    BY DEF Whole
<1>6. Editing(r, 0) => Closing(r, 0)
  <2>1. 0 \in 0 .. l
      BY <1>1
  <2>2. QED BY <1>4, <1>5, <2>1
<1>7. ASSUME NEW i \in 1 .. Len(r)
      PROVE  /\ r[i].do = "edit" => Held(r, i)
             /\ r[i].do \in Replacing \cup {"commit"} /\ Editing(r, i) => Closing(r, i)
             /\ r[i].do = "commit" => r[i].checked
  <2>1. CASE i <= l
    <3>1. i \in 1 .. l /\ i \in 0 .. l /\ r[i] = p[i]
        BY <1>1, <2>1
    <3>2. /\ p[i].do = "edit" => Held(p, i)
          /\ p[i].do \in Replacing \cup {"commit"} /\ Editing(p, i) => Closing(p, i)
          /\ p[i].do = "commit" => p[i].checked
        BY <3>1 DEF Whole, Parts
    <3>3. p[i].do \in Replacing \cup {"commit"} /\ Editing(r, i) => Closing(r, i)
        BY <1>4, <3>1, <3>2
    <3>4. QED BY <1>3, <3>1, <3>2, <3>3
  <2>2. CASE i > l
    <3>1. i - l \in 1 .. Len(q) /\ i - l \in Nat /\ l + (i - l) = i
        BY <1>1, <2>2
    <3>2. r[l + (i - l)] = q[i - l]
        BY <1>1, <3>1
    <3>3. /\ Held(r, i) <=> Held(q, i - l)
          /\ Editing(r, i) <=> Editing(q, i - l)
          /\ Closing(r, i) <=> Closing(q, i - l)
      <4>1. /\ Held(r, l + (i - l)) <=> Held(q, i - l)
            /\ Editing(r, l + (i - l)) <=> Editing(q, i - l)
            /\ Closing(r, l + (i - l)) <=> Closing(q, i - l)
          BY <1>2, <3>1
      <4>2. QED BY <3>1, <4>1
    <3>4. /\ q[i - l].do = "edit" => Held(q, i - l)
          /\ q[i - l].do \in Replacing \cup {"commit"} /\ Editing(q, i - l) => Closing(q, i - l)
          /\ q[i - l].do = "commit" => q[i - l].checked
        BY <3>1 DEF Whole, Parts
    <3>5. r[i] = q[i - l]
        BY <3>1, <3>2
    <3>6. QED BY <3>3, <3>4, <3>5
  <2>3. QED BY <1>1, <2>1, <2>2
<1>8. QED BY <1>6, <1>7 DEF Whole, Parts, r

\* The lines to come back to the transaction, and the polls have their request.
Tidy(p) == IsProgram(p) /\ Whole(p) /\ ~Awaits(p)
Calm(p) == Tidy(p) /\ Looked(p)

\* Tidy and calm programs can be put one after the other.
LEMMA Joins ==
    /\ \A p, q : Tidy(p) /\ Tidy(q) => Tidy(p \o q)
    /\ \A p, q : Calm(p) /\ Calm(q) => Calm(p \o q)
<1>1. ASSUME NEW p, NEW q, Tidy(p), Tidy(q) PROVE Tidy(p \o q)
  <2>1. IsProgram(p) /\ IsProgram(q) /\ Whole(p) /\ Whole(q) /\ ~Awaits(p) /\ ~Awaits(q)
      BY <1>1 DEF Tidy
  <2>2. IsProgram(p \o q) /\ Whole(p \o q) /\ 0 \in 0 .. Len(p)
      BY <2>1, Joined, PartsJoined
  <2>3. ~Awaits(p \o q)
      BY <2>1, <2>2, BeforeOver DEF Awaits
  <2>4. QED BY <2>2, <2>3 DEF Tidy
<1>2. ASSUME NEW p, NEW q, Calm(p), Calm(q) PROVE Calm(p \o q)
  <2>1. IsProgram(p) /\ IsProgram(q) /\ Looked(p) /\ Looked(q) /\ Tidy(p \o q)
      BY <1>1, <1>2 DEF Calm, Tidy
  <2> DEFINE r == p \o q
  <2>2. /\ Len(r) = Len(p) + Len(q) /\ Len(p) \in Nat /\ Len(q) \in Nat
        /\ \A i \in 1 .. Len(p) : r[i] = p[i]
        /\ \A i \in 1 .. Len(q) : r[Len(p) + i] = q[i]
      BY <2>1, Joined
  <2> HIDE DEF r
  <2>3. ASSUME NEW i \in 1 .. Len(r), r[i].do = "request" PROVE r[i].checked
    <3>1. CASE i <= Len(p)
        BY <2>1, <2>2, <2>3, <3>1 DEF Looked
    <3>2. CASE i > Len(p)
      <4>1. i - Len(p) \in 1 .. Len(q) /\ Len(p) + (i - Len(p)) = i
          BY <2>2, <3>2
      <4>2. r[i] = q[i - Len(p)]
          BY <2>2, <4>1
      <4>3. QED BY <2>1, <2>3, <4>1, <4>2 DEF Looked
    <3>3. QED BY <2>2, <3>1, <3>2
  <2>4. QED BY <2>1, <2>3 DEF Calm, Looked, r
<1>3. QED BY <1>1, <1>2

\* A line, whatever its texts are.
IsLine(line) == \E D, A, V, C : line \in [do : D, attr : A, val : V, checked : C]

\* The parts of a line.
LEMMA LineFields ==
    \A do, attr, val, checked :
       /\ IsLine(Line(do, attr, val, checked))
       /\ Line(do, attr, val, checked).do = do
       /\ Line(do, attr, val, checked).checked = checked
<1> TAKE do, attr, val, checked
<1> DEFINE line == Line(do, attr, val, checked)
<1>1. /\ line \in [do : {do}, attr : {attr}, val : {val}, checked : {checked}]
      /\ line.do = do /\ line.checked = checked
    BY DEF Line
<1> HIDE DEF line
<1>2. IsLine(line)
    BY <1>1, Zenon DEF IsLine
<1>3. QED BY <1>1, <1>2 DEF line

\* Programs of few lines.
LEMMA Lists ==
    /\ IsProgram(<<>>)
    /\ \A a : IsProgram(<<a>>)
    /\ \A a, b : IsProgram(<<a, b>>)
<1>1. <<>> \in Seq({})
    OBVIOUS
<1>2. \A a : <<a>> \in Seq({a})
    OBVIOUS
<1>3. \A a, b : <<a, b>> \in Seq({a, b})
    OBVIOUS
<1>4. QED BY <1>1, <1>2, <1>3, Zenon DEF IsProgram

\* A single line that is no part of a transaction.
LEMMA OneLine ==
    ASSUME NEW line, line.do \notin {"edit", "poll"}, line.do = "commit" => line.checked
    PROVE  Tidy(<<line>>) /\ ((line.do = "request" => line.checked) => Calm(<<line>>))
<1> DEFINE p == <<line>>
<1>1. IsProgram(p) /\ Len(p) = 1 /\ p[1] = line
    BY Lists
<1> HIDE DEF p
<1>2. \A do, stops : ~Before(p, 1, do, stops) /\ (Before(p, 0, do, stops) => line.do = do)
    BY <1>1 DEF Before
<1>3. ~Editing(p, 0) /\ ~Editing(p, 1) /\ ~Awaits(p)
    BY <1>2 DEF Editing, Awaits
<1>4. \A i \in 1 .. Len(p) : i = 1
    BY <1>1
<1>5. Whole(p)
    BY <1>1, <1>3, <1>4 DEF Whole, Parts
<1>6. (line.do = "request" => line.checked) => Looked(p)
    BY <1>1, <1>4 DEF Looked
<1>7. QED BY <1>1, <1>3, <1>5, <1>6 DEF Tidy, Calm, p

\* A request, looked at or not, and the poll of its report.
LEMMA RequestAndPoll ==
    ASSUME NEW level, NEW ends, NEW asks, asks.do = "request"
    PROVE  /\ Tidy(<<asks, Poll(level, ends)>>)
           /\ asks.checked => Calm(<<asks, Poll(level, ends)>>)
<1> DEFINE p == <<asks, Poll(level, ends)>>
<1>1. Poll(level, ends).do = "poll"
    BY DEF Line, Poll
<1>2. IsProgram(p) /\ Len(p) = 2 /\ p[1] = asks /\ p[2] = Poll(level, ends)
    BY Lists
<1> HIDE DEF p
<1>3. \A i \in 1 .. Len(p) : i = 1 \/ i = 2
    BY <1>2
<1>4. \A n \in 0 .. 2 : ~Editing(p, n)
    BY <1>1, <1>2 DEF Editing, Before
<1>5. ~Awaits(p)
  <2>1. SUFFICES ASSUME NEW j \in 1 .. 2, p[j].do = "poll",
                        \A k \in 1 .. (j - 1) : p[k].do # "request"
                 PROVE  FALSE
      BY <1>2 DEF Awaits, Before
  <2>2. j = 2
      BY <1>1, <1>2, <2>1
  <2>3. 1 \in 1 .. (j - 1)
      BY <2>2
  <2>4. QED BY <1>1, <1>2, <2>1, <2>3
<1>6. Whole(p)
    BY <1>1, <1>2, <1>3, <1>4 DEF Whole, Parts
<1>7. asks.checked => Looked(p)
    BY <1>1, <1>2, <1>3 DEF Looked
<1>8. QED BY <1>2, <1>5, <1>6, <1>7 DEF Tidy, Calm, p

-----------------------------------------------------------------------------
IsEdit(line) == IsLine(line) /\ line.do = "edit"
Edits(p) == IsProgram(p) /\ \A i \in 1 .. Len(p) : IsEdit(p[i])

\* The edits that the operations send.
LEMMA EditLists ==
    /\ \A attr, val : IsEdit(Edit(attr, val))
    /\ \A attr : IsEdit(Edit1(attr)) /\ IsEdit(No(attr))
    /\ \A a : IsEdit(a) => Edits(<<a>>)
    /\ \A a, b : IsEdit(a) /\ IsEdit(b) => Edits(<<a, b>>)
    /\ \A a, b, c : IsEdit(a) /\ IsEdit(b) /\ IsEdit(c) => Edits(<<a, b, c>>)
    /\ \A a, b, c, d, e : IsEdit(a) /\ IsEdit(b) /\ IsEdit(c) /\ IsEdit(d) /\ IsEdit(e)
                             => Edits(<<a, b, c, d, e>>)
    /\ \A a, b, c, d, e, f :
          IsEdit(a) /\ IsEdit(b) /\ IsEdit(c) /\ IsEdit(d) /\ IsEdit(e) /\ IsEdit(f)
             => Edits(<<a, b, c, d, e, f>>)
<1>1. \A attr, val : IsEdit(Edit(attr, val))
    BY LineFields DEF IsEdit, Edit
<1>2. \A attr : IsEdit(Edit1(attr)) /\ IsEdit(No(attr))
    BY <1>1 DEF Edit1, No
<1>3. ASSUME NEW S, NEW p \in Seq(S), \A i \in 1 .. Len(p) : IsEdit(p[i]) PROVE Edits(p)
    BY <1>3, Zenon DEF Edits, IsProgram
<1>4. ASSUME NEW a, IsEdit(a) PROVE Edits(<<a>>)
  <2>1. <<a>> \in Seq({a}) /\ \A i \in 1 .. Len(<<a>>) : IsEdit(<<a>>[i])
      BY <1>4
  <2>2. QED BY <1>3, <2>1, Zenon
<1>5. ASSUME NEW a, NEW b, IsEdit(a), IsEdit(b) PROVE Edits(<<a, b>>)
  <2>1. <<a, b>> \in Seq({a, b}) /\ \A i \in 1 .. Len(<<a, b>>) : IsEdit(<<a, b>>[i])
      BY <1>5
  <2>2. QED BY <1>3, <2>1, Zenon
<1>6. ASSUME NEW a, NEW b, NEW c, IsEdit(a), IsEdit(b), IsEdit(c) PROVE Edits(<<a, b, c>>)
  <2>1. <<a, b, c>> \in Seq({a, b, c}) /\ \A i \in 1 .. Len(<<a, b, c>>) : IsEdit(<<a, b, c>>[i])
      BY <1>6
  <2>2. QED BY <1>3, <2>1, Zenon
<1>7. ASSUME NEW a, NEW b, NEW c, NEW d, NEW e, IsEdit(a), IsEdit(b), IsEdit(c), IsEdit(d), IsEdit(e)
      PROVE  Edits(<<a, b, c, d, e>>)
  <2>1. /\ <<a, b, c, d, e>> \in Seq({a, b, c, d, e})
        /\ \A i \in 1 .. Len(<<a, b, c, d, e>>) : IsEdit(<<a, b, c, d, e>>[i])
      BY <1>7
  <2>2. QED BY <1>3, <2>1, Zenon
<1>8. ASSUME NEW a, NEW b, NEW c, NEW d, NEW e, NEW f,
             IsEdit(a), IsEdit(b), IsEdit(c), IsEdit(d), IsEdit(e), IsEdit(f)
      PROVE  Edits(<<a, b, c, d, e, f>>)
  <2>1. /\ <<a, b, c, d, e, f>> \in Seq({a, b, c, d, e, f})
        /\ \A i \in 1 .. Len(<<a, b, c, d, e, f>>) : IsEdit(<<a, b, c, d, e, f>>[i])
      BY <1>8
  <2>2. QED BY <1>3, <2>1, Zenon
<1>9. QED BY <1>1, <1>2, <1>4, <1>5, <1>6, <1>7, <1>8, Zenon

\* The lines of a transaction by their places.
LEMMA TransactionLines ==
    ASSUME NEW edits, Edits(edits)
    PROVE  /\ IsProgram(Transaction(edits)) /\ Len(edits) \in Nat
           /\ Len(Transaction(edits)) = Len(edits) + 2
           /\ Transaction(edits)[1] = Configure /\ Transaction(edits)[Len(edits) + 2] = Commit
           /\ \A i \in 2 .. Len(edits) + 1 :
                 Transaction(edits)[i].do = "edit" /\ IsLine(Transaction(edits)[i])
           /\ IsLine(Configure) /\ Configure.do = "configure"
           /\ IsLine(Commit) /\ Commit.do = "commit" /\ Commit.checked = TRUE
<1> DEFINE begins == <<Configure>>
           ending  == <<Commit>>
           t == begins \o edits
           r == t \o ending
<1>1. /\ IsLine(Configure) /\ Configure.do = "configure"
      /\ IsLine(Commit) /\ Commit.do = "commit" /\ Commit.checked = TRUE
    BY LineFields DEF Configure, Commit
<1>2. /\ IsProgram(edits) /\ Len(edits) \in Nat
      /\ \A i \in 1 .. Len(edits) : edits[i].do = "edit" /\ IsLine(edits[i])
    BY DEF Edits, IsEdit, IsProgram
<1>3. /\ IsProgram(begins) /\ Len(begins) = 1 /\ begins[1] = Configure
      /\ IsProgram(ending) /\ Len(ending) = 1 /\ ending[1] = Commit
    BY Lists
<1> HIDE DEF begins, ending
<1>4. /\ IsProgram(t) /\ Len(t) = 1 + Len(edits) /\ t[1] = Configure
      /\ \A i \in 1 .. Len(edits) : t[1 + i] = edits[i]
  <2>1. /\ IsProgram(t) /\ Len(t) = Len(begins) + Len(edits)
        /\ \A i \in 1 .. Len(begins) : t[i] = begins[i]
        /\ \A i \in 1 .. Len(edits) : t[Len(begins) + i] = edits[i]
    <3> HIDE DEF t
    <3>1. t = begins \o edits
        BY DEF t
    <3>2. IsProgram(begins) /\ IsProgram(edits)
        BY <1>2, <1>3
    <3>3. Joint(begins, edits, t)
        BY <3>1, <3>2, JoinedIs, Zenon
    <3>4. QED BY <3>3 DEF Joint
  <2> HIDE DEF t
  <2>2. QED BY <1>3, <2>1
<1> HIDE DEF t
<1>5. /\ IsProgram(r) /\ Len(r) = Len(edits) + 2 /\ r[Len(edits) + 2] = Commit
      /\ \A i \in 1 .. Len(edits) + 1 : r[i] = t[i]
  <2>1. /\ IsProgram(r) /\ Len(r) = Len(t) + Len(ending)
        /\ \A i \in 1 .. Len(t) : r[i] = t[i]
        /\ \A i \in 1 .. Len(ending) : r[Len(t) + i] = ending[i]
    <3> HIDE DEF r
    <3>1. r = t \o ending
        BY DEF r
    <3>2. IsProgram(t) /\ IsProgram(ending)
        BY <1>3, <1>4
    <3>3. Joint(t, ending, r)
        BY <3>1, <3>2, JoinedIs, Zenon
    <3>4. QED BY <3>3 DEF Joint
  <2> HIDE DEF r
  <2>2. r[Len(t) + 1] = Commit
      BY <1>3, <2>1
  <2>3. Len(t) + 1 = Len(edits) + 2
      BY <1>2, <1>4
  <2>4. QED BY <1>2, <1>3, <1>4, <2>1, <2>2, <2>3
<1>6. r = Transaction(edits)
    BY DEF r, t, begins, ending, Transaction
<1> HIDE DEF r
<1>7. r[1] = Configure
    BY <1>2, <1>4, <1>5
<1>8. ASSUME NEW i \in 2 .. Len(edits) + 1 PROVE r[i].do = "edit" /\ IsLine(r[i])
  <2>1. i - 1 \in 1 .. Len(edits) /\ 1 + (i - 1) = i /\ i \in 1 .. Len(edits) + 1
      BY <1>2
  <2>2. t[1 + (i - 1)] = edits[i - 1]
      BY <1>4, <2>1
  <2>3. r[i] = edits[i - 1]
      BY <1>5, <2>1, <2>2
  <2>4. QED BY <1>2, <2>1, <2>3
<1>9. QED BY <1>1, <1>2, <1>5, <1>6, <1>7, <1>8

\* configure, any edits, commit: a transaction is whole.
LEMMA TransactionCalm ==
    ASSUME NEW edits, Edits(edits)
    PROVE  Calm(Transaction(edits))
<1> DEFINE p == Transaction(edits)
           n == Len(edits) + 2
<1>1. /\ IsProgram(p) /\ n \in Nat /\ n >= 2 /\ Len(p) = n
      /\ p[1].do = "configure" /\ p[n].do = "commit" /\ p[n].checked = TRUE
      /\ \A i \in 2 .. n - 1 : p[i].do = "edit"
  <2>1. Len(edits) \in Nat /\ Len(edits) + 1 = n - 1
      BY TransactionLines
  <2>2. /\ IsProgram(p) /\ Len(p) = Len(edits) + 2
        /\ p[1] = Configure /\ p[Len(edits) + 2] = Commit
        /\ \A i \in 2 .. Len(edits) + 1 : p[i].do = "edit" /\ IsLine(p[i])
        /\ IsLine(Configure) /\ Configure.do = "configure"
        /\ IsLine(Commit) /\ Commit.do = "commit" /\ Commit.checked = TRUE
      BY TransactionLines
  <2> HIDE DEF p
  <2>3. QED BY <2>1, <2>2
<1> HIDE DEF p, n
<1>2. \A i \in 1 .. n : i = 1 \/ i = n \/ i \in 2 .. n - 1
    BY <1>1
<1>3. \A stops : \A i \in 1 .. n - 1 : "edit" \notin stops => Before(p, i, "commit", stops)
    BY <1>1 DEF Before
<1>4. \A i \in 1 .. n : p[i].do = "edit" => Held(p, i)
  <2>1. \A i \in 1 .. n : p[i].do = "edit" => i \in 1 .. n - 1
      BY <1>1
  <2>2. QED BY <1>3, <2>1 DEF Held
<1>5. ~Editing(p, n)
    BY <1>1 DEF Editing, Before
<1>6. \A i \in 1 .. n : p[i].do \in Replacing \cup {"commit"} => i = n
    BY <1>1, <1>2 DEF Replacing
<1>7. ~Editing(p, 0) /\ ~Awaits(p)
  <2>1. 0 < Len(p) /\ 0 + 1 = 1
      BY <1>1
  <2>2. ~Editing(p, 0)
      BY <1>1, <2>1, BeforeNext DEF Editing
  <2>3. \A i \in 1 .. n : p[i].do # "poll"
      BY <1>1, <1>2
  <2>4. QED BY <1>1, <2>2, <2>3 DEF Awaits, Before
<1>8. Looked(p)
  <2>1. \A i \in 1 .. n : p[i].do # "request"
      BY <1>1, <1>2
  <2>2. QED BY <1>1, <2>1 DEF Looked
<1>9. Whole(p)
    BY <1>1, <1>4, <1>5, <1>6, <1>7 DEF Whole, Parts
<1>10. QED BY <1>1, <1>7, <1>8, <1>9 DEF Calm, Tidy, p

\* The same with every line behind an open session and every answer looked at.
LEMMA RunCmdWhole ==
    ASSUME NEW edits, Edits(edits)
    PROVE  Tidy(RunCmd(Transaction(edits))) /\ AllLooked(RunCmd(Transaction(edits)))
              /\ Looked(RunCmd(Transaction(edits)))
<1> DEFINE t == Transaction(edits)
           n == Len(edits) + 2
           p == RunCmd(t)
<1>1. /\ IsProgram(t) /\ n \in Nat /\ n >= 2 /\ Len(t) = n
      /\ t[1].do = "configure" /\ t[n].do = "commit"
      /\ \A i \in 2 .. n - 1 : t[i].do = "edit" /\ IsLine(t[i])
      /\ IsLine(t[1]) /\ IsLine(t[n])
  <2>1. Len(edits) \in Nat /\ Len(edits) + 1 = n - 1
      BY TransactionLines
  <2>2. /\ IsProgram(t) /\ Len(t) = Len(edits) + 2
        /\ t[1] = Configure /\ t[Len(edits) + 2] = Commit
        /\ \A i \in 2 .. Len(edits) + 1 : t[i].do = "edit" /\ IsLine(t[i])
        /\ IsLine(Configure) /\ Configure.do = "configure"
        /\ IsLine(Commit) /\ Commit.do = "commit" /\ Commit.checked = TRUE
      BY TransactionLines
  <2> HIDE DEF t
  <2>3. QED BY <2>1, <2>2
<1> HIDE DEF t, n
<1>2. \A i \in 1 .. n : i = 1 \/ i = n \/ i \in 2 .. n - 1
    BY <1>1
<1>3. ASSUME NEW i \in 1 .. n
      PROVE  /\ [t[i] EXCEPT !.checked = TRUE].do = t[i].do
             /\ [t[i] EXCEPT !.checked = TRUE].checked = TRUE
  <2>1. IsLine(t[i])
      BY <1>1, <1>2
  <2>2. PICK D, A, V, C : t[i] \in [do : D, attr : A, val : V, checked : C]
      BY <2>1, Zenon DEF IsLine
  <2>3. QED BY <2>2
<1>4. Line("open", "", "", TRUE).do = "open" /\ Line("open", "", "", TRUE).checked = TRUE
    BY LineFields
<1>5. p = [i \in 1 .. 2 * n |->
              IF i % 2 = 1 THEN Line("open", "", "", TRUE) ELSE [t[i \div 2] EXCEPT !.checked = TRUE]]
    BY <1>1 DEF RunCmd
<1>6. \A i \in 1 .. 2 * n : i % 2 # 1 => i \div 2 \in 1 .. n /\ i = 2 * (i \div 2)
    BY <1>1
<1>7. \A i \in 1 .. 2 * n : p[i].checked = TRUE
    BY <1>3, <1>4, <1>5, <1>6
<1>8. \A i \in 1 .. 2 * n : p[i].do = IF i % 2 = 1 THEN "open" ELSE t[i \div 2].do
    BY <1>3, <1>4, <1>5, <1>6
<1>9. IsProgram(p) /\ Len(p) = 2 * n
  <2> DEFINE S == {p[i] : i \in 1 .. 2 * n}
  <2>0. p = [i \in 1 .. 2 * n |-> p[i]]
    <3> DEFINE F(i) == IF i % 2 = 1 THEN Line("open", "", "", TRUE)
                                   ELSE [t[i \div 2] EXCEPT !.checked = TRUE]
    <3>1. p = [i \in 1 .. 2 * n |-> F(i)]
        BY <1>5
    <3> HIDE DEF F, p
    <3>2. QED BY <3>1
  <2> HIDE DEF p
  <2>1. p = [i \in 1 .. 2 * n |-> p[i]] /\ 2 * n \in Nat
      BY <1>1, <2>0
  <2>2. p \in [1 .. 2 * n -> S]
      BY <2>1
  <2> HIDE DEF S
  <2>3. p \in Seq(S) /\ Len(p) = 2 * n
      BY <2>1, <2>2
  <2>4. QED BY <2>3, Zenon DEF IsProgram
<1> HIDE DEF p
<1>10. /\ p[1].do = "open" /\ p[2].do = "configure" /\ p[2 * n].do = "commit"
       /\ \A i \in 3 .. 2 * n - 1 : p[i].do \in {"open", "edit"}
  <2>1. 1 \in 1 .. 2 * n /\ 1 % 2 = 1 /\ 2 \in 1 .. 2 * n /\ 2 % 2 # 1 /\ 2 \div 2 = 1
      BY <1>1
  <2>2. 2 * n \in 1 .. 2 * n /\ (2 * n) % 2 # 1 /\ (2 * n) \div 2 = n
      BY <1>1
  <2>3. ASSUME NEW i \in 3 .. 2 * n - 1 PROVE p[i].do \in {"open", "edit"}
    <3>1. i \in 1 .. 2 * n /\ (i % 2 # 1 => i \div 2 \in 2 .. n - 1)
        BY <1>1, <1>6
    <3>2. QED BY <1>1, <1>8, <3>1
  <2>4. QED BY <1>1, <1>8, <2>1, <2>2, <2>3
<1>11. \A i \in 1 .. 2 * n : i = 1 \/ i = 2 \/ i \in 3 .. 2 * n - 1 \/ i = 2 * n
    BY <1>1
<1>12. ASSUME NEW i \in 2 .. 2 * n - 1 PROVE Closing(p, i) /\ Held(p, i)
  <2>1. 2 * n \in (i + 1) .. Len(p) /\ \A k \in (i + 1) .. (2 * n - 1) : k \in 3 .. 2 * n - 1
      BY <1>1, <1>9
  <2>2. \A k \in (i + 1) .. (2 * n - 1) : p[k].do \notin {"put", "configure"}
      BY <1>10, <2>1
  <2>3. \A k \in (i + 1) .. (2 * n - 1) : p[k].do \notin {"configure"}
      BY <2>2
  <2>4. QED BY <1>10, <2>1, <2>2, <2>3 DEF Closing, Held, Before
<1>13. ~Editing(p, 0) /\ ~Editing(p, 1)
  <2>1. 0 < Len(p) /\ 1 < Len(p) /\ 0 + 1 = 1 /\ 1 + 1 = 2
      BY <1>1, <1>9
  <2>2. ~Editing(p, 1)
      BY <1>9, <1>10, <2>1, BeforeNext DEF Editing
  <2>3. QED BY <1>9, <1>10, <2>1, <2>2, BeforeNext DEF Editing
<1>14. ~Editing(p, 2 * n)
    BY <1>1, <1>9 DEF Editing, Before
<1>15. Whole(p)
  <2>1. ASSUME NEW i \in 1 .. Len(p)
        PROVE  /\ p[i].do = "edit" => Held(p, i)
               /\ p[i].do \in Replacing \cup {"commit"} /\ Editing(p, i) => Closing(p, i)
               /\ p[i].do = "commit" => p[i].checked
      BY <1>1, <1>7, <1>9, <1>10, <1>11, <1>12, <1>13, <1>14
  <2>2. QED BY <1>13, <2>1 DEF Whole, Parts
<1>16. \A i \in 1 .. 2 * n : p[i].do # "poll"
    BY <1>10, <1>11
<1>17. ~Awaits(p)
    BY <1>9, <1>16 DEF Awaits, Before
<1>18. AllLooked(p) /\ Looked(p)
    BY <1>7, <1>9 DEF AllLooked, Looked
<1>19. QED BY <1>9, <1>15, <1>17, <1>18 DEF Tidy, p, t

\* The programs that Series has put together, one after the other.
LEMMA SeriesParts ==
    ASSUME NEW n \in Nat, NEW part
    PROVE  \E upto : /\ Series(n, part) = upto[n] /\ upto[0] = <<>>
                     /\ \A i \in 1 .. n : upto[i] = upto[i - 1] \o part[i]
<1> DEFINE joined(a, i) == a \o part[i]
           next(f, i) == IF i = 0 THEN <<>> ELSE joined(f[i - 1], i)
           upto[i \in 0 .. n] == IF i = 0 THEN <<>> ELSE upto[i - 1] \o part[i]
<1>1. Series(n, part) = upto[n]
    BY DEF Series
<1>2. upto = CHOOSE f : f = [i \in 0 .. n |-> next(f, i)]
    BY DEF upto
<1> HIDE DEF upto, joined
<1> DEFINE Upto(k) == \E f : f = [i \in 0 .. k |-> next(f, i)]
           Short == {k \in 0 .. n : ~Upto(k)}
<1>3. \A f, g, i : (i = 0 \/ f[i - 1] = g[i - 1]) => next(f, i) = next(g, i)
    OBVIOUS
<1>4. Short \subseteq Nat
    OBVIOUS
<1>5. ASSUME Short # {} PROVE FALSE
  <2>1. PICK k \in Short : \A j \in Short : k <= j
      BY <1>4, <1>5, Smallest
  <2>2. k \in 0 .. n /\ ~Upto(k)
      BY <2>1
  <2>3. k # 0
    <3> DEFINE f == [i \in 0 .. 0 |-> <<>>]
    <3>1. f = [i \in 0 .. 0 |-> next(f, i)]
        OBVIOUS
    <3> HIDE DEF f
    <3>2. Upto(0)
        BY <3>1
    <3>3. QED BY <2>2, <3>2
  <2>4. k - 1 \in 0 .. n /\ k \in Nat /\ k - 1 < k
      BY <2>2, <2>3
  <2> HIDE DEF Short
  <2>5. k - 1 \notin Short
    <3>1. \A j \in Short : k <= j
        BY <2>1
    <3>2. ~(k <= k - 1)
        BY <2>4
    <3>3. QED BY <3>1, <3>2, Zenon
  <2>6. Upto(k - 1)
      BY <2>4, <2>5 DEF Short
  <2> HIDE DEF next
  <2>7. PICK f : f = [i \in 0 .. (k - 1) |-> next(f, i)]
      BY <2>6
  <2> DEFINE g == [i \in 0 .. k |-> IF i = k THEN next(f, k) ELSE f[i]]
  <2>8. \A i \in 0 .. k : i = k \/ i \in 0 .. (k - 1)
      BY <2>4
  <2>9. \A i \in 0 .. (k - 1) : f[i] = next(f, i)
      BY <2>7
  <2>10. \A i \in 0 .. (k - 1) : i \in 0 .. k /\ i # k /\ (i # 0 => i - 1 \in 0 .. (k - 1))
      BY <2>4
  <2>11. \A i \in 0 .. (k - 1) : g[i] = f[i]
      BY <2>10
  <2>12. k \in 0 .. k /\ k - 1 \in 0 .. (k - 1) /\ g[k] = next(f, k)
      BY <2>3, <2>4
  <2>13. DOMAIN g = 0 .. k /\ g = [i \in 0 .. k |-> g[i]]
      OBVIOUS
  <2> HIDE DEF g
  <2>14. next(f, k) = next(g, k)
      BY <1>3, <2>11, <2>12
  <2>15. \A i \in 0 .. (k - 1) : next(f, i) = next(g, i)
      BY <1>3, <2>10, <2>11
  <2>16. \A i \in 0 .. k : g[i] = next(g, i)
      BY <2>8, <2>9, <2>11, <2>12, <2>14, <2>15
  <2>17. g = [i \in 0 .. k |-> next(g, i)]
      BY <2>13, <2>16
  <2>18. QED BY <2>2, <2>17
<1>6. Upto(n)
    BY <1>5
<1>7. upto = [i \in 0 .. n |-> next(upto, i)]
    BY <1>2, <1>6
<1> HIDE DEF next
<1>8. \A i \in 0 .. n : upto[i] = next(upto, i)
    BY <1>7
<1>9. next(upto, 0) = <<>> /\ \A i \in 1 .. n : next(upto, i) = joined(upto[i - 1], i)
    BY DEF next
<1>10. /\ upto[0] = <<>> /\ \A i \in 1 .. n : upto[i] = joined(upto[i - 1], i)
    BY <1>8, <1>9
<1>11. QED BY <1>1, <1>10, Zenon DEF joined

\* Calm programs, as many as there are.
LEMMA CalmSeries ==
    ASSUME NEW n \in Nat, NEW part, \A i \in 1 .. n : Calm(part[i])
    PROVE  Calm(Series(n, part))
<1>1. PICK upto : /\ Series(n, part) = upto[n] /\ upto[0] = <<>>
                  /\ \A i \in 1 .. n : upto[i] = upto[i - 1] \o part[i]
    BY SeriesParts
<1>2. Calm(<<>>)
    BY Nothing DEF Calm, Tidy, Whole
<1> DEFINE Bad == {i \in 0 .. n : ~Calm(upto[i])}
<1>3. ASSUME Bad # {} PROVE FALSE
  <2>1. Bad \subseteq Nat
      OBVIOUS
  <2>2. PICK k \in Bad : \A j \in Bad : k <= j
      BY <1>3, <2>1, Smallest
  <2>3. k \in 0 .. n /\ ~Calm(upto[k])
      BY <2>2
  <2>4. k # 0
      BY <1>1, <1>2, <2>3
  <2>5. k \in 1 .. n /\ k - 1 \in 0 .. n /\ k - 1 < k
      BY <2>3, <2>4
  <2>6. k - 1 \notin Bad
      BY <2>2, <2>5
  <2>7. Calm(upto[k - 1])
      BY <2>5, <2>6
  <2>8. Calm(part[k]) /\ upto[k] = upto[k - 1] \o part[k]
      BY <1>1, <2>5
  <2>9. QED BY <2>3, <2>7, <2>8, Joins
<1>4. Calm(upto[n])
    BY <1>3
<1>5. QED BY <1>1, <1>4

\* The same program again and again.
LEMMA CalmRepeat ==
    ASSUME NEW n \in Nat, NEW prog, Calm(prog)
    PROVE  Calm(Repeat(n, prog))
<1> DEFINE part == [i \in 1 .. n |-> prog]
<1>1. \A i \in 1 .. n : part[i] = prog
    OBVIOUS
<1> HIDE DEF part
<1>2. Calm(Series(n, part))
    BY <1>1, CalmSeries
<1>3. QED BY <1>2 DEF Repeat, part

-----------------------------------------------------------------------------
\* Single lines.
LEMMA LinesCalm ==
    /\ Calm(<<>>) /\ Calm(Open) /\ Calm(Disconnect) /\ Calm(Look) /\ Calm(Raises)
    /\ Calm(Run) /\ Calm(Caught) /\ Calm(Reboot) /\ Calm(reconnect_node)
    /\ \A checked : Calm(Call(checked))
    /\ \A attr, val, checked : Calm(Put(attr, val, checked))
<1>1. Calm(<<>>)
    BY Nothing DEF Calm, Tidy, Whole
<1>2. ASSUME NEW do \in {"open", "close", "look", "call", "raise", "run", "put", "reboot", "reconnect"},
             NEW attr, NEW val, NEW checked
      PROVE  Calm(<<Line(do, attr, val, checked)>>)
  <2> DEFINE line == Line(do, attr, val, checked)
  <2>1. line.do = do
      BY DEF Line
  <2>2. line.do \notin {"edit", "poll", "commit", "request"}
      BY <2>1
  <2> HIDE DEF line
  <2>3. Calm(<<line>>)
      BY <2>2, OneLine
  <2>4. QED BY <2>3 DEF line
<1>3. /\ Calm(<<Line("open", "", "", TRUE)>>) /\ Calm(<<Line("close", "", "", TRUE)>>)
      /\ Calm(<<Line("look", "", "", TRUE)>>) /\ Calm(<<Line("raise", "", "", TRUE)>>)
      /\ Calm(<<Line("run", "", "", TRUE)>>) /\ Calm(<<Line("run", "", "", FALSE)>>)
      /\ Calm(<<Line("reboot", "", "", TRUE)>>) /\ Calm(<<Line("reconnect", "", "", TRUE)>>)
      /\ \A checked : Calm(<<Line("call", "", "", checked)>>)
      /\ \A attr, val, checked : Calm(<<Line("put", attr, val, checked)>>)
    BY <1>2, Zenon
<1>4. QED BY <1>1, <1>3, Zenon DEF Open, Disconnect, Look, Raises, Run, Caught, Reboot,
                 reconnect_node, Call, Put

\* What Calm programs are put together from.
LEMMA Rules ==
    /\ \A p, q : Calm(p) /\ Calm(q) => Calm(p \o q)
    /\ \A c, p : Calm(p) => Calm(When(c, p))
    /\ \A n \in Nat : \A p : Calm(p) => Calm(Repeat(n, p))
    /\ \A edits : Edits(edits) => Calm(Transaction(edits))
<1>1. \A c, p : Calm(p) => Calm(When(c, p))
    BY LinesCalm, Zenon DEF When
<1>2. QED BY <1>1, Joins, CalmRepeat, TransactionCalm, Zenon

Proper(o) == WellFormed(o) /\ Shaped(o)

\* When an operation of these lines is proper.
LEMMA OperationProper ==
    ASSUME NEW name, NEW p, Tidy(p), name \notin Unlooked => Looked(p),
           name \in Strict => AllLooked(p),
           name = "restore_backup" =>
              Reloads(p) /\ p # <<>> /\ Has(p, "open") /\ Has(p, "wait_broken")
    PROVE  Proper(Operation(name, p))
<1> DEFINE o == Operation(name, p)
<1>1. /\ o.name = name /\ o.prog = p /\ o.goal = LastEdits(p) /\ o.edits = AllEdits(p)
      /\ o \in [name : {name}, prog : {p}, goal : {LastEdits(p)}, edits : {AllEdits(p)},
                level : {LevelOf(p)}]
    BY DEF Operation
<1> HIDE DEF o
<1>2. IsProgram(p) /\ Whole(p) /\ ~Awaits(p)
    BY DEF Tidy
<1>3. Sent(p, AllEdits(p))
    BY DEF Sent, AllEdits, Pair
<1>4. \A g \in LastEdits(p) : LastSet(p, g)
    BY DEF LastEdits, LastSet, Pair
<1>5. WellFormed(o)
    BY <1>1, <1>2, <1>3, <1>4 DEF WellFormed
<1>6. Shaped(o)
    BY <1>1, <1>2, Zenon DEF Shaped
<1>7. QED BY <1>5, <1>6 DEF Proper, o

\* Operations that look at what they ask, and are not told apart.
Plain(name) == name \notin Strict /\ name # "restore_backup"

\* Most operations: their lines are calm.
LEMMA CalmProper ==
    \A name, p : Plain(name) /\ Calm(p) => Proper(Operation(name, p))
BY OperationProper DEF Plain, Calm

-----------------------------------------------------------------------------
(* The operations of CbaQueries and CbaOperations, one by one.                *)
\* The names of the queries and commands.
LEMMA PlainNames ==
    /\ Plain("get_traffic_info") /\ Plain("get_licenses") /\ Plain("check_all_licenses_granted")
    /\ Plain("list_backup") /\ Plain("manual_backups") /\ Plain("check_backup")
    /\ Plain("check_alarms") /\ Plain("NBI_check_alarms") /\ Plain("list_hcjobs")
    /\ Plain("find_diameter_connection_up") /\ Plain("get_map_info") /\ Plain("get_tls_protocol")
    /\ Plain("check_ExtDb_connections") /\ Plain("check_Http_connections")
    /\ Plain("check_time_wait_connections") /\ Plain("check_Http_connections_up")
    /\ Plain("check_umask") /\ Plain("get_free_memory") /\ Plain("run_PL_command")
    /\ Plain("proc_status") /\ Plain("check_scheduled_backups") /\ Plain("wait_datetime")
    /\ Plain("SS7_SCTP_info") /\ Plain("SS7_stack_state") /\ Plain("listing")
    /\ Plain("lock_proc") /\ Plain("unlock_proc") /\ Plain("envdata_set") /\ Plain("envdata_unset")
    /\ Plain("SS7_stack_reset") /\ Plain("SS7_SCTP_release_association") /\ Plain("sync_ntp_server")
    /\ Plain("disable_iTCO_watchdog") /\ Plain("enable_AandA") /\ Plain("disable_AandA")
    /\ Plain("clean_app_logs") /\ Plain("clean_logs") /\ Plain("upload") /\ Plain("collect_logs")
    /\ Plain("diacc_collect_info") /\ Plain("cmw_collect_info") /\ Plain("get_diacc_dump_json")
    /\ Plain("find_and_download") /\ Plain("pmf_counter_sum") /\ Plain("check_pmf_counter_update")
    /\ Plain("node_reload") /\ Plain("reboot_processor")
BY DEF Plain, Strict

\* get_traffic_info, whatever is asked for.
LEMMA TrafficProper ==
    \A ims, asked : Proper(get_traffic_info(ims, asked))
<1> USE LinesCalm, Rules, CalmProper, PlainNames
<1> TAKE ims, asked
<1> DEFINE info == IF asked = {} THEN TrafficItems ELSE asked
<1> HIDE DEF info
<1>0. Calm(Show)
    BY Zenon DEF Show
<1>1. Calm(hss_items(ims, info))
    BY <1>0, Zenon DEF hss_items
<1>2. Calm(support_items(info))
    BY <1>0, Zenon DEF support_items
<1>3. Calm(server_items(info))
    BY Zenon DEF server_items
<1>4. QED BY <1>1, <1>2, <1>3, Zenon DEF get_traffic_info, info

\* The listings, with any number of keys, backups, alarms, peers.
LEMMA ListingsProper ==
    /\ Proper(run_CBA_check_backup) /\ Proper(healthcheck_list_hcjobs) /\ Proper(get_tls_protocol)
    /\ \A keys \in Nat : Proper(run_CBA_get_licenses(keys))
    /\ \A keys \in Nat : \A again : Proper(check_all_licenses_granted(keys, again))
    /\ \A backups \in Nat : Proper(run_CBA_list_backup(backups)) /\ Proper(manual_backups(backups))
    /\ \A alarms \in Nat : \A summary, list : Proper(run_CBA_check_alarms(summary, list, alarms))
    /\ \A alarms \in Nat : \A filter, again : Proper(run_CBA_NBI_check_alarms(filter, again, alarms))
    /\ \A nodes \in Nat : Proper(find_diameter_connection_up(nodes))
    /\ \A operations \in Nat : \A found : Proper(get_map_info(found, operations))
    /\ Proper(Operation("listing", configured_ExtDb_urls))
    /\ \A d : Proper(Operation("listing", get_dia_container_peer_node_info(d)))
    /\ \A a, d : Proper(Operation("listing", get_dia_container_peer_node_conn_info(a, d)))
<1> USE LinesCalm, Rules, CalmProper, PlainNames
<1>0. Calm(Show)
    BY Zenon DEF Show
<1>1. /\ Proper(run_CBA_check_backup) /\ Proper(healthcheck_list_hcjobs) /\ Proper(get_tls_protocol)
    BY <1>0, Zenon DEF run_CBA_check_backup, healthcheck_list_hcjobs, get_tls_protocol
<1>2. \A keys \in Nat : Proper(run_CBA_get_licenses(keys))
    BY <1>0, Zenon DEF run_CBA_get_licenses, find_licenses, find_capacity_licenses
<1>3. \A keys \in Nat : \A again : Proper(check_all_licenses_granted(keys, again))
    BY <1>0, Zenon DEF check_all_licenses_granted
<1>4. \A backups \in Nat : Proper(run_CBA_list_backup(backups)) /\ Proper(manual_backups(backups))
    BY <1>0, Zenon DEF run_CBA_list_backup, manual_backups
<1>5. \A alarms \in Nat : \A summary, list : Proper(run_CBA_check_alarms(summary, list, alarms))
    BY <1>0, Zenon DEF run_CBA_check_alarms, alarm_info, get_alarm_info
<1>6. \A alarms \in Nat : \A filter, again : Proper(run_CBA_NBI_check_alarms(filter, again, alarms))
    BY <1>0, Zenon DEF run_CBA_NBI_check_alarms, nbi_alarm_info
<1>7. /\ \A d : Calm(get_dia_container_peer_nodes(d)) /\ Calm(get_dia_container_peer_node_info(d))
                /\ Calm(get_dia_container_peer_node_conns(d))
      /\ \A a, d : Calm(get_dia_container_peer_node_conn_info(a, d))
    BY <1>0, Zenon DEF get_dia_container_peer_nodes, get_dia_container_peer_node_info,
           get_dia_container_peer_node_conns, get_dia_container_peer_node_conn_info
<1>8. \A nodes \in Nat : Proper(find_diameter_connection_up(nodes))
    BY <1>7, Zenon DEF find_diameter_connection_up
<1>9. \A operations \in Nat : \A found : Proper(get_map_info(found, operations))
    BY <1>0, Zenon DEF get_map_info
<1>10. Proper(Operation("listing", configured_ExtDb_urls))
    BY <1>0, Zenon DEF configured_ExtDb_urls
<1>11. /\ \A d : Proper(Operation("listing", get_dia_container_peer_node_info(d)))
       /\ \A a, d : Proper(Operation("listing", get_dia_container_peer_node_conn_info(a, d)))
    BY <1>7, Zenon
<1>12. QED BY <1>1, <1>2, <1>3, <1>4, <1>5, <1>6, <1>8, <1>9, <1>10, <1>11, Zenon

\* The checks on the processors, however many there are.
LEMMA ChecksProper ==
    /\ \A pls \in Nat : Proper(run_CBA_check_ExtDb_connections(pls))
    /\ \A pls \in Nat : \A http, http2 : Proper(run_CBA_check_Http_connections(http, http2, pls))
    /\ \A pls \in Nat : \A valid : Proper(run_CBA_check_time_wait_connections(valid, pls))
    /\ Proper(check_Http_connections_up)
    /\ \A n \in Nat : Proper(run_CBA_check_umask(n))
    /\ \A n \in Nat : \A cpu_load : Proper(run_CBA_get_free_memory(cpu_load, n))
    /\ \A n, commands \in Nat : \A valid : Proper(run_CBA_run_PL_command(valid, n, commands))
    /\ \A n \in Nat : \A valid : Proper(run_CBA_proc_status(valid, n))
    /\ \A valid, deleted : Proper(run_CBA_check_scheduled_backups(valid, deleted))
    /\ \A given, valid : Proper(run_CBA_wait_datetime(given, valid))
    /\ Proper(run_CBA_SS7_SCTP_info) /\ Proper(run_CBA_SS7_stack_processes_state)
<1> USE LinesCalm, Rules, CalmProper, PlainNames
<1>1. /\ Calm(processors) /\ Calm(payload) /\ Calm(processor_state) /\ Calm(extend_connection)
      /\ Calm(configured_ExtDb_connections) /\ Calm(configured_Http_connections)
      /\ Calm(configured_Http_uris) /\ Calm(configured_Http2_connections) /\ Calm(configured_Http2_uris)
    BY Zenon DEF processors, payload, processor_state, extend_connection, configured_ExtDb_connections,
           configured_Http_connections, configured_Http_uris, configured_Http2_connections,
           configured_Http2_uris
<1>2. \A pls \in Nat : Proper(run_CBA_check_ExtDb_connections(pls))
    BY <1>1, Zenon DEF run_CBA_check_ExtDb_connections
<1>3. \A pls \in Nat : \A http, http2 : Proper(run_CBA_check_Http_connections(http, http2, pls))
    BY <1>1, Zenon DEF run_CBA_check_Http_connections
<1>4. \A pls \in Nat : \A valid : Proper(run_CBA_check_time_wait_connections(valid, pls))
    BY <1>1, Zenon DEF run_CBA_check_time_wait_connections
<1>5. Proper(check_Http_connections_up)
    BY <1>1, Zenon DEF check_Http_connections_up
<1>6. \A n \in Nat : Proper(run_CBA_check_umask(n))
    BY <1>1, Zenon DEF run_CBA_check_umask
<1>7. \A n \in Nat : \A cpu_load : Proper(run_CBA_get_free_memory(cpu_load, n))
    BY <1>1, Zenon DEF run_CBA_get_free_memory
<1>8. \A n, commands \in Nat : \A valid : Proper(run_CBA_run_PL_command(valid, n, commands))
    BY <1>1, Zenon DEF run_CBA_run_PL_command
<1>9. \A n \in Nat : \A valid : Proper(run_CBA_proc_status(valid, n))
    BY <1>1, Zenon DEF run_CBA_proc_status
<1>10. \A valid, deleted : Proper(run_CBA_check_scheduled_backups(valid, deleted))
    BY Zenon DEF run_CBA_check_scheduled_backups
<1>11. \A given, valid : Proper(run_CBA_wait_datetime(given, valid))
    BY Zenon DEF run_CBA_wait_datetime
<1>12. Proper(run_CBA_SS7_SCTP_info) /\ Proper(run_CBA_SS7_stack_processes_state)
    BY <1>1, Zenon DEF run_CBA_SS7_SCTP_info, run_CBA_SS7_stack_processes_state
<1>13. QED BY <1>2, <1>3, <1>4, <1>5, <1>6, <1>7, <1>8, <1>9, <1>10, <1>11, <1>12, Zenon

\* The commands on processors, variables, stacks and logs.
LEMMA ProcessorsProper ==
    /\ \A n \in Nat : \A already : Proper(run_CBA_lock_proc(n, already)) /\ Proper(run_CBA_unlock_proc(n, already))
    /\ \A known : Proper(set_envdata(known)) /\ Proper(run_CBA_envdata_unset(known))
    /\ Proper(run_CBA_SS7_stack_reset) /\ Proper(run_CBA_SS7_SCTP_release_association)
    /\ \A valid : Proper(run_CBA_sync_ntp_server(valid))
    /\ \A rounds \in Nat : \A valid, is_virtual, needed :
          Proper(run_CBA_disable_iTCO_watchdog(valid, is_virtual, needed, rounds))
    /\ \A enabled : Proper(enable_AandA(enabled)) /\ Proper(disable_AandA(enabled))
    /\ \A logs : Proper(run_CBA_clean_app_logs(logs)) /\ Proper(clean_logs(logs))
<1> USE LinesCalm, Rules, CalmProper, PlainNames
<1>1. Calm(processors) /\ Calm(processor_state) /\ Calm(extend_connection)
    BY Zenon DEF processors, processor_state, extend_connection
<1>2. ASSUME NEW n \in Nat, NEW already, NEW state
      PROVE  Calm(Series(n, [i \in 1 .. n |->
                processor_state \o When(i \notin already, Put(Proc(i), state, FALSE))]))
  <2> DEFINE part == [i \in 1 .. n |->
                         processor_state \o When(i \notin already, Put(Proc(i), state, FALSE))]
  <2>1. \A i : Calm(processor_state \o When(i \notin already, Put(Proc(i), state, FALSE)))
      BY <1>1, Zenon
  <2>2. \A i \in 1 .. n : Calm(part[i])
      BY <2>1, Zenon
  <2> HIDE DEF part
  <2>3. Calm(Series(n, part))
      BY <2>2, CalmSeries
  <2>4. QED BY <2>3 DEF part
<1>3. \A n \in Nat : \A already : Proper(run_CBA_lock_proc(n, already)) /\ Proper(run_CBA_unlock_proc(n, already))
    BY <1>1, <1>2, Zenon DEF run_CBA_lock_proc, run_CBA_unlock_proc
<1>4. \A known : Proper(set_envdata(known)) /\ Proper(run_CBA_envdata_unset(known))
    BY Zenon DEF set_envdata, run_CBA_envdata_unset
<1>5. Proper(run_CBA_SS7_stack_reset) /\ Proper(run_CBA_SS7_SCTP_release_association)
    BY <1>1, Zenon DEF run_CBA_SS7_stack_reset, run_CBA_SS7_SCTP_release_association
<1>6. \A valid : Proper(run_CBA_sync_ntp_server(valid))
    BY <1>1, Zenon DEF run_CBA_sync_ntp_server, sync_processor_ntp_server, sync_processor_ntp_restart
<1>7. \A rounds \in Nat : \A valid, is_virtual, needed :
         Proper(run_CBA_disable_iTCO_watchdog(valid, is_virtual, needed, rounds))
  <2>1. Calm(disable_itco_watchdog) /\ Calm(status_itco_watchdog_disabled) /\ 2 \in Nat
      BY <1>1, Zenon DEF disable_itco_watchdog, status_itco_watchdog_disabled
  <2>2. QED BY <2>1, Zenon DEF run_CBA_disable_iTCO_watchdog
<1>8. \A enabled : Proper(enable_AandA(enabled)) /\ Proper(disable_AandA(enabled))
  <2>1. Calm(start_CBAClissEmergency) /\ Calm(is_AandA_enabled)
      BY Zenon DEF start_CBAClissEmergency, is_AandA_enabled, check_user_locked
  <2>2. \A state : Calm(AandA(state))
      BY EditLists, Zenon DEF AandA
  <2>3. QED BY <2>1, <2>2, Zenon DEF enable_AandA, disable_AandA
<1>9. \A logs : Proper(run_CBA_clean_app_logs(logs)) /\ Proper(clean_logs(logs))
    BY Zenon DEF run_CBA_clean_app_logs, clean_logs
<1>10. QED BY <1>3, <1>4, <1>5, <1>6, <1>7, <1>8, <1>9, Zenon

\* The collections of files, and the reloads.
LEMMA FilesProper ==
    /\ \A root : /\ Proper(upload(root)) /\ Proper(run_CBA_diacc_collect_info(root))
                 /\ Proper(run_CBA_cmw_collect_info(root)) /\ Proper(run_CBA_get_diacc_dump_json(root))
    /\ \A console, types, root : Proper(run_CBA_collect_logs(console, types, root))
    /\ \A files \in Nat : \A valid, pack, root :
          Proper(run_CBA_find_and_download(valid, files, pack, root))
    /\ \A own : Proper(run_CBA_pmf_counter_sum(own))
    /\ Proper(run_CBA_check_pmf_counter_update)
    /\ Proper(wait_for_node_reload(reload_node)) /\ Proper(wait_for_node_reload(reboot_node))
    /\ Proper(wait_for_node_reload(cmw_reboot_sc)) /\ Proper(reboot_processor)
<1> USE LinesCalm, Rules, CalmProper, PlainNames
<1>1. Calm(processors) /\ Calm(payload) /\ Calm(extend_connection) /\ Calm(force_primary_controller)
    BY Zenon DEF processors, payload, extend_connection, force_primary_controller
<1>2. \A root : Calm(download(root)) /\ \A f : Calm(Collect(f, root))
    BY Zenon DEF download, Collect
<1>3. \A root : Proper(upload(root))
    BY Zenon DEF upload
<1>4. \A root : /\ Proper(run_CBA_diacc_collect_info(root)) /\ Proper(run_CBA_cmw_collect_info(root))
                /\ Proper(run_CBA_get_diacc_dump_json(root))
    BY <1>1, <1>2, Zenon DEF run_CBA_diacc_collect_info, run_CBA_cmw_collect_info,
           run_CBA_get_diacc_dump_json
<1>5. \A console, types, root : Proper(run_CBA_collect_logs(console, types, root))
    BY <1>1, <1>2, Zenon DEF run_CBA_collect_logs
<1>6. \A files \in Nat : \A valid, pack, root :
         Proper(run_CBA_find_and_download(valid, files, pack, root))
    BY <1>2, Zenon DEF run_CBA_find_and_download
<1>7. (\A own : Proper(run_CBA_pmf_counter_sum(own))) /\ Proper(run_CBA_check_pmf_counter_update)
    BY Zenon DEF run_CBA_pmf_counter_sum, run_CBA_check_pmf_counter_update
<1>8. /\ Proper(wait_for_node_reload(reload_node)) /\ Proper(wait_for_node_reload(reboot_node))
      /\ Proper(wait_for_node_reload(cmw_reboot_sc)) /\ Proper(reboot_processor)
    BY <1>1, Zenon DEF wait_for_node_reload, reload_node, reboot_node, cmw_reboot_sc,
           wait_for_all_ExtDb_connections_up, reboot_processor
<1>9. QED BY <1>3, <1>4, <1>5, <1>6, <1>7, <1>8, Zenon

\* Every operation of Queries.
LEMMA QueriesProper ==
    \A o \in Queries : Proper(o)
<1>0. Few \subseteq Nat /\ 2 \in Nat
    BY DEF Few
<1> DEFINE Single == {run_CBA_check_backup, healthcheck_list_hcjobs, get_tls_protocol,
                check_Http_connections_up, run_CBA_SS7_SCTP_info, run_CBA_SS7_stack_processes_state,
                run_CBA_SS7_stack_reset, run_CBA_SS7_SCTP_release_association,
                run_CBA_check_pmf_counter_update, reboot_processor}
           Counted(n) == {run_CBA_get_licenses(n), run_CBA_list_backup(n), manual_backups(n),
                find_diameter_connection_up(n), run_CBA_check_ExtDb_connections(n),
                run_CBA_check_umask(n)}
           Either(n, b) == {check_all_licenses_granted(n, b), get_map_info(b, n),
                run_CBA_get_free_memory(b, n), run_CBA_proc_status(b, n), run_CBA_run_PL_command(b, n, 2),
                run_CBA_check_time_wait_connections(b, n)}
           Both(n, a, b) == {run_CBA_check_alarms(a, b, n), run_CBA_NBI_check_alarms(a, b, n),
                run_CBA_check_Http_connections(a, b, n)}
           Uncounted(a, b) == {run_CBA_check_scheduled_backups(a, b), run_CBA_wait_datetime(a, b)}
<1>1. \A o \in Single : Proper(o)
    BY ListingsProper, ChecksProper, ProcessorsProper, FilesProper, Zenon
<1>2. \A o \in TrafficListings : Proper(o)
    BY TrafficProper, Zenon DEF TrafficListings
<1>l. \A o \in Listings : Proper(o)
  <2> DEFINE Progs == {configured_ExtDb_urls} \cup {get_dia_container_peer_node_info(d) : d \in BOOLEAN}
                         \cup {get_dia_container_peer_node_conn_info(a, d) : a, d \in BOOLEAN}
  <2>1. \A p \in Progs : \/ p = configured_ExtDb_urls
                         \/ \E d : p = get_dia_container_peer_node_info(d)
                         \/ \E a, d : p = get_dia_container_peer_node_conn_info(a, d)
      OBVIOUS
  <2>0. Listings = {Operation("listing", prog) : prog \in Progs}
      BY DEF Listings
  <2> HIDE DEF Progs
  <2>2. \A p \in Progs : Proper(Operation("listing", p))
      BY <2>1, ListingsProper, Zenon
  <2>3. QED BY <2>0, <2>2, Zenon
<1>3. \A n \in Nat : \A o \in Counted(n) : Proper(o)
    BY ListingsProper, ChecksProper, Zenon
<1>4. \A n \in Nat : \A b : \A o \in Either(n, b) : Proper(o)
    BY <1>0, ListingsProper, ChecksProper, Zenon
<1>5. \A n \in Nat : \A a, b : \A o \in Both(n, a, b) : Proper(o)
    BY ListingsProper, ChecksProper, Zenon
<1>6. \A a, b : \A o \in Uncounted(a, b) : Proper(o)
    BY ChecksProper, Zenon
<1>7. ASSUME NEW o \in Queries
      PROVE  \/ o \in Single
             \/ o \in TrafficListings \/ o \in Listings
             \/ \E n \in Few : o \in Counted(n)
             \/ \E n \in Few : \E b : o \in Either(n, b)
             \/ \E n \in Few : \E a, b : o \in Both(n, a, b)
             \/ \E a, b : o \in Uncounted(a, b)
  <2>1. o \in Single \/ o \in TrafficListings \/ o \in Listings
        \/ (\E n \in Few : o \in Counted(n))
        \/ (\E n \in Few : \E b : o \in Either(n, b))
        \/ (\E n \in Few : \E a, b : o \in Both(n, a, b))
        \/ (\E a, b : o \in Uncounted(a, b))
      BY DEF Queries
  <2> HIDE DEF Single, Counted, Either, Both, Uncounted
  <2>2. QED BY <2>1
<1> HIDE DEF Single, Counted, Either, Both, Uncounted
<1>8. QED BY <1>0, <1>1, <1>2, <1>l, <1>3, <1>4, <1>5, <1>6, <1>7

\* Every operation of Commands.
LEMMA CommandsProper ==
    \A o \in Commands : Proper(o)
<1> DEFINE Either(b) == {set_envdata(b), run_CBA_envdata_unset(b), run_CBA_sync_ntp_server(b),
                enable_AandA(b), disable_AandA(b), run_CBA_clean_app_logs(b), clean_logs(b), upload(b),
                run_CBA_diacc_collect_info(b), run_CBA_cmw_collect_info(b),
                run_CBA_get_diacc_dump_json(b), run_CBA_pmf_counter_sum(b)}
           Locks(s) == {run_CBA_lock_proc(3, s), run_CBA_unlock_proc(3, s)}
           Many(v, t, i, n) == {run_CBA_disable_iTCO_watchdog(v, i, n, 2), run_CBA_collect_logs(v, t, i),
                run_CBA_find_and_download(v, 2, i, n)}
           Waits == {wait_for_node_reload(reload_node), wait_for_node_reload(reboot_node),
                wait_for_node_reload(cmw_reboot_sc)}
<1>0. 3 \in Nat /\ 2 \in Nat
    OBVIOUS
<1>1. \A b : \A o \in Either(b) : Proper(o)
    BY ProcessorsProper, FilesProper, Zenon
<1>2. \A s : \A o \in Locks(s) : Proper(o)
    BY <1>0, ProcessorsProper, Zenon
<1>3. \A v, t, i, n : \A o \in Many(v, t, i, n) : Proper(o)
    BY <1>0, ProcessorsProper, FilesProper, Zenon
<1>4. \A o \in Waits : Proper(o)
    BY FilesProper, Zenon
<1>5. ASSUME NEW o \in Commands
      PROVE  \/ \E b : o \in Either(b)
             \/ \E s : o \in Locks(s)
             \/ \E v, t, i, n : o \in Many(v, t, i, n)
             \/ o \in Waits
    BY DEF Commands
<1> HIDE DEF Either, Locks, Many, Waits
<1>6. QED BY <1>1, <1>2, <1>3, <1>4, <1>5

\* The names of the configuration operations and actions.
LEMMA OtherNames ==
    /\ Plain("change_OwnGTAddress") /\ Plain("remove_dia_peer_node") /\ Plain("unlock_traffic_modules")
    /\ Plain("add_csr_cert") /\ Plain("delete_csr_cert") /\ Plain("create_trusted_category")
    /\ Plain("delete_trusted_category") /\ Plain("enable_trusted_cert") /\ Plain("disable_trusted_cert")
    /\ Plain("config_cli_tls") /\ Plain("delete_config_cli_tls") /\ Plain("config_netconf_tls")
    /\ Plain("delete_config_netconf_tls") /\ Plain("config_flow_policy") /\ Plain("delete_flow_policy")
    /\ Plain("scale_in_payloads") /\ Plain("nbi_lock_processor") /\ Plain("nbi_unlock_processor")
    /\ Plain("delete_trusted_cert") /\ Plain("check_scaling") /\ Plain("scalable_payloads")
    /\ Plain("run_cliss_command") /\ Plain("update_ntp_servers")
    /\ Plain("create_backup") /\ Plain("delete_backup") /\ Plain("import_backup")
    /\ Plain("export_backup") /\ Plain("inst_csr_cert") /\ Plain("inst_trusted_cert")
    /\ Plain("restore_backup -s")
BY DEF Plain, Strict

\* Certificates, trust, TLS and the like: edits in one or two transactions.
LEMMA CertificatesProper ==
    /\ Proper(change_OwnGTAddress) /\ Proper(delete_csr_cert_cliss)
    /\ \A d : Proper(remove_dia_peer_node(d))
    /\ \A locked : Proper(unlock_traffic_modules(locked))
    /\ \A exists : Proper(add_csr_cert_cliss(exists))
    /\ Proper(create_trusted_category_cliss) /\ Proper(delete_trusted_category_cliss)
    /\ Proper(enable_trusted_cert_cliss) /\ Proper(disable_trusted_cert_cliss)
    /\ Proper(config_cli_tls_cliss) /\ Proper(delete_config_cli_tls_cliss)
    /\ Proper(config_netconf_tls_cliss) /\ Proper(delete_config_netconf_tls_cliss)
<1> USE LinesCalm, Rules, CalmProper, OtherNames, EditLists
<1>1. Proper(change_OwnGTAddress) /\ Proper(delete_csr_cert_cliss)
    BY Zenon DEF change_OwnGTAddress, delete_csr_cert_cliss
<1>2. (\A d : Proper(remove_dia_peer_node(d))) /\ \A locked : Proper(unlock_traffic_modules(locked))
    BY Zenon DEF remove_dia_peer_node, unlock_traffic_modules
<1>3. \A exists : Proper(add_csr_cert_cliss(exists))
    BY Zenon DEF add_csr_cert_cliss
<1>4. Proper(create_trusted_category_cliss)
  <2>1. IsLine(Line("edit", "trustedCertificates", "set", TRUE))
      BY LineFields, Zenon
  <2>2. Line("edit", "trustedCertificates", "set", TRUE).do = "edit"
      BY DEF Line
  <2>3. IsEdit(Line("edit", "trustedCertificates", "set", TRUE))
      BY <2>1, <2>2, Zenon DEF IsEdit
  <2>4. QED BY <2>3, Zenon DEF create_trusted_category_cliss
<1>5. /\ Proper(delete_trusted_category_cliss) /\ Proper(enable_trusted_cert_cliss)
      /\ Proper(disable_trusted_cert_cliss)
    BY Zenon DEF delete_trusted_category_cliss, enable_trusted_cert_cliss, disable_trusted_cert_cliss
<1>7. Calm(config_cli_tls_cliss.prog) /\ Calm(delete_config_cli_tls_cliss.prog)
  <2> DEFINE on == Open \o Transaction(<<Edit1("nodeCredential"), Edit1("trustCategory")>>)
                        \o Transaction(<<Edit("administrativeState", "UNLOCKED")>>)
             off == Open \o Transaction(<<Edit("administrativeState", "LOCKED"), No("nodeCredential"),
                                          No("trustCategory")>>)
  <2>1. Calm(on) /\ Calm(off)
      BY Zenon
  <2>2. /\ config_cli_tls_cliss = Operation("config_cli_tls", on)
        /\ delete_config_cli_tls_cliss = Operation("delete_config_cli_tls", off)
      BY Zenon DEF config_cli_tls_cliss, delete_config_cli_tls_cliss
  <2> HIDE DEF on, off
  <2>4. config_cli_tls_cliss.prog = on /\ delete_config_cli_tls_cliss.prog = off
      BY <2>2 DEF Operation
  <2>5. QED BY <2>1, <2>4, Zenon
<1>8. Proper(config_cli_tls_cliss) /\ Proper(delete_config_cli_tls_cliss)
    BY Zenon DEF config_cli_tls_cliss, delete_config_cli_tls_cliss
<1>9. Proper(config_netconf_tls_cliss) /\ Proper(delete_config_netconf_tls_cliss)
    BY <1>7, Zenon DEF config_netconf_tls_cliss, delete_config_netconf_tls_cliss
<1>10. QED BY <1>1, <1>2, <1>3, <1>4, <1>5, <1>8, <1>9, Zenon

\* Flow policies, processors, and commands on the session.
LEMMA ProcessorEditsProper ==
    /\ Proper(config_flow_policy_cliss) /\ Proper(delete_flow_policy_cliss)
    /\ Proper(nbi_lock_processor) /\ Proper(nbi_unlock_processor)
    /\ Proper(delete_trusted_cert_cliss) /\ Proper(check_scaling_cliss) /\ Proper(scalable_payloads_cliss)
    /\ \A c : Proper(run_cliss_command(c))
<1> USE LinesCalm, Rules, CalmProper, OtherNames, EditLists
<1>1. Proper(config_flow_policy_cliss) /\ Proper(delete_flow_policy_cliss)
    BY Zenon DEF config_flow_policy_cliss, delete_flow_policy_cliss
<1>2. Calm(get_nbi_proc_cliss_dn)
    BY Zenon DEF get_nbi_proc_cliss_dn, get_nbi_tenant
<1>3. Proper(nbi_lock_processor) /\ Proper(nbi_unlock_processor)
    BY <1>2, Zenon DEF nbi_lock_processor, nbi_unlock_processor
<1>4. Proper(delete_trusted_cert_cliss) /\ Proper(check_scaling_cliss) /\ Proper(scalable_payloads_cliss)
    BY Zenon DEF delete_trusted_cert_cliss, check_scaling_cliss, scalable_payloads_cliss
<1>5. \A c : Proper(run_cliss_command(c))
    BY Zenon DEF run_cliss_command
<1>6. QED BY <1>1, <1>3, <1>4, <1>5, Zenon

\* scale_in_payloads: the second 'configure' comes before the commit.
LEMMA ScaleInProper ==
    Proper(scale_in_payloads_cliss)
<1> DEFINE p == <<Configure, No("provides1"), Configure, No("provides2"), Commit>>
<1>1. /\ IsProgram(p) /\ Len(p) = 5
      /\ p[1] = Configure /\ p[2] = No("provides1") /\ p[3] = Configure /\ p[4] = No("provides2")
      /\ p[5] = Commit
  <2>1. \A a, b, c, d, e : <<a, b, c, d, e>> \in Seq({a, b, c, d, e})
      OBVIOUS
  <2>2. IsProgram(p)
      BY <2>1, Zenon DEF IsProgram
  <2>3. QED BY <2>2
<1>2. /\ Configure.do = "configure" /\ No("provides1").do = "edit" /\ No("provides2").do = "edit"
      /\ Commit.do = "commit" /\ Commit.checked = TRUE
    BY DEF Configure, No, Edit, Commit, Line
<1> HIDE DEF p
<1>3. /\ p[1].do = "configure" /\ p[2].do = "edit" /\ p[3].do = "configure" /\ p[4].do = "edit"
      /\ p[5].do = "commit" /\ p[5].checked = TRUE
    BY <1>1, <1>2
<1>4. \A i \in 1 .. Len(p) : i = 1 \/ i = 2 \/ i = 3 \/ i = 4 \/ i = 5
    BY <1>1
<1>5. Held(p, 2) /\ Held(p, 4)
  <2>1. \A i \in {2, 4} : \A k \in (i + 1) .. 4 : p[k].do \notin {"put"} \cup Replacing
      BY <1>3 DEF Replacing
  <2>2. 5 \in (2 + 1) .. Len(p) /\ 5 \in (4 + 1) .. Len(p) /\ 5 - 1 = 4
      BY <1>1
  <2>3. \A i \in {2, 4} : Before(p, i, "commit", {"put"} \cup Replacing)
      BY <1>3, <2>1, <2>2 DEF Before
  <2>4. QED BY <2>3 DEF Held
<1>6. ~Editing(p, 5)
    BY <1>1 DEF Editing, Before
<1>7. ~Editing(p, 0)
  <2>1. \A j \in (0 + 1) .. Len(p) : j = 1 \/ 1 \in (0 + 1) .. (j - 1)
      BY <1>1
  <2>2. QED BY <1>3, <2>1 DEF Editing, Before
<1>8. Whole(p)
    BY <1>1, <1>3, <1>4, <1>5, <1>6, <1>7 DEF Whole, Parts, Replacing
<1>9. Looked(p) /\ ~Awaits(p)
    BY <1>1, <1>3, <1>4 DEF Looked, Awaits, Before
<1>10. Calm(p)
    BY <1>1, <1>8, <1>9 DEF Calm, Tidy
<1>11. QED BY <1>10, LinesCalm, Rules, CalmProper, OtherNames, Zenon DEF scale_in_payloads_cliss, p

\* The operations that look at every answer.
LEMMA StrictProper ==
    /\ Proper(run_CBA_schedule_backup) /\ Proper(run_CBA_remove_schedule_backup)
    /\ Proper(run_CBA_schedule_health_check) /\ Proper(run_CBA_remove_schedule_health_check)
<1>1. ASSUME NEW name \in Strict, NEW edits, Edits(edits)
      PROVE  Proper(Operation(name, RunCmd(Transaction(edits))))
    BY <1>1, RunCmdWhole, OperationProper DEF Strict
<1>2. /\ "schedule_backup" \in Strict /\ "remove_schedule_backup" \in Strict
      /\ "schedule_health_check" \in Strict /\ "remove_schedule_health_check" \in Strict
    BY DEF Strict
<1>3. QED BY <1>1, <1>2, EditLists, Zenon DEF run_CBA_schedule_backup, run_CBA_remove_schedule_backup,
                run_CBA_schedule_health_check, run_CBA_remove_schedule_health_check

\* The operations that may overlook a refused request.
LEMMA TidyProper ==
    \A name \in Unlooked \ {"restore_backup"} : \A p : Tidy(p) => Proper(Operation(name, p))
<1>1. \A name \in Unlooked \ {"restore_backup"} : Plain(name)
    BY DEF Unlooked, Plain, Strict
<1>2. QED BY <1>1, OperationProper DEF Plain

\* A request and its poll.
LEMMA ActionsProper ==
    /\ Proper(run_CBA_create_backup) /\ Proper(run_CBA_delete_backup) /\ Proper(run_CBA_import_backup)
    /\ Proper(run_CBA_export_backup) /\ Proper(inst_csr_cert_cliss) /\ Proper(inst_trusted_cert_cliss)
<1>1. \A level, ends : Calm(<<Request(level, TRUE), Poll(level, ends)>>)
  <2>1. \A level : Request(level, TRUE).do = "request" /\ Request(level, TRUE).checked
      BY DEF Request, Line
  <2>2. QED BY <2>1, RequestAndPoll
<1>2. \A level, ends : Tidy(<<RequestTried(level), Poll(level, ends)>>)
  <2>1. \A level : RequestTried(level).do = "request"
      BY DEF RequestTried, Line
  <2>2. QED BY <2>1, RequestAndPoll
<1>3. "create_backup" \in Unlooked /\ "delete_backup" \in Unlooked /\ "export_backup" \in Unlooked
    BY DEF Unlooked
<1>4. Proper(run_CBA_import_backup) /\ Proper(inst_csr_cert_cliss) /\ Proper(inst_trusted_cert_cliss)
    BY <1>1, LinesCalm, Rules, CalmProper, OtherNames, Zenon
       DEF run_CBA_import_backup, inst_csr_cert_cliss, inst_trusted_cert_cliss
<1>5. Tidy(Open) /\ Tidy(Open \o Look)
    BY LinesCalm, Rules DEF Calm
<1>6. \A name \in {"create_backup", "delete_backup", "export_backup"} :
         \A p : Tidy(p) => Proper(Operation(name, p))
    BY <1>3, TidyProper
<1>7. Proper(run_CBA_create_backup) /\ Proper(run_CBA_delete_backup)
    BY <1>2, <1>5, <1>6, Joins, Zenon DEF run_CBA_create_backup, run_CBA_delete_backup
<1>8. Proper(run_CBA_export_backup)
    BY <1>2, <1>5, <1>6, Joins, Zenon DEF run_CBA_export_backup
<1>9. QED BY <1>4, <1>7, <1>8

\* A poll whose request has been sent.
LEMMA AskedFirst ==
    ASSUME NEW p, Tidy(p), Has(p, "request"), NEW q, IsProgram(q), Whole(q)
    PROVE  Tidy(p \o q)
<1>1. IsProgram(p) /\ Whole(p) /\ ~Awaits(p)
    BY DEF Tidy
<1>2. IsProgram(p \o q) /\ Whole(p \o q) /\ 0 \in 0 .. Len(p) /\ Len(p) \in Nat
    BY <1>1, Joined, PartsJoined
<1>3. ~Clear(p, 0, {"request"})
    BY <1>2 DEF Clear, Has
<1>4. ~Awaits(p \o q)
    BY <1>1, <1>2, <1>3, BeforeOver DEF Awaits
<1>5. QED BY <1>2, <1>4 DEF Tidy

\* run_CBA_health_check and update_licenses: their requests are not looked at.
LEMMA UnlookedProper ==
    /\ \A is_virtual : Proper(run_CBA_health_check(is_virtual))
    /\ \A updateable : Proper(update_licenses(updateable))
<1> USE LinesCalm, Rules, EditLists
<1>1. \A p : Calm(p) => Tidy(p)
    BY DEF Calm
<1>2. \A name \in {"health_check", "update_licenses"} : \A p : Tidy(p) => Proper(Operation(name, p))
    BY TidyProper DEF Unlooked
<1>3. "health_check" \in {"health_check", "update_licenses"}
         /\ "update_licenses" \in {"health_check", "update_licenses"}
    OBVIOUS
<1>4. ASSUME NEW is_virtual PROVE Proper(run_CBA_health_check(is_virtual))
  <2> DEFINE start == start_healthcheck(is_virtual)
             asks == <<Request("job", FALSE)>>
             polls == <<Poll("job", "finished")>>
             p == Open \o Transaction(<<No("HcJob")>>)
                    \o When(is_virtual, Transaction(<<Edit1("HSS_201"), Edit1("HSS_107")>>))
                    \o Transaction(<<Edit1("HcJob"), Edit1("rulesCategories")>>)
  <2>1. Calm(p)
      BY Zenon
  <2>2. Tidy(asks) /\ IsProgram(asks) /\ Len(asks) = 1 /\ asks[1].do = "request"
    <3>1. Request("job", FALSE).do = "request"
        BY DEF Request, Line
    <3>2. Tidy(<<Request("job", FALSE)>>)
        BY <3>1, OneLine
    <3>3. QED BY <3>1, <3>2 DEF Tidy
  <2>3. IsProgram(polls) /\ Whole(polls)
    <3>1. Poll("job", "finished").do = "poll"
        BY DEF Poll, Line
    <3>2. IsProgram(polls) /\ Len(polls) = 1 /\ polls[1] = Poll("job", "finished")
        BY Lists
    <3> HIDE DEF polls
    <3>3. \A i \in 1 .. Len(polls) : i = 1
        BY <3>2
    <3>4. ~Editing(polls, 0) /\ ~Editing(polls, 1)
        BY <3>1, <3>2, <3>3 DEF Editing, Before
    <3>5. QED BY <3>1, <3>2, <3>3, <3>4 DEF Whole, Parts
  <2>4. start = p \o asks
      BY DEF start_healthcheck
  <2> HIDE DEF p, asks, polls, start
  <2>5. Tidy(start)
      BY <1>1, <2>1, <2>2, <2>4, Joins, Zenon
  <2>6. Has(start, "request")
    <3>1. Joint(p, asks, start)
        BY <2>1, <2>2, <2>4, JoinedIs DEF Calm, Tidy
    <3>2. Len(p) + 1 \in 1 .. Len(start) /\ start[Len(p) + 1] = asks[1]
        BY <2>2, <3>1 DEF Joint
    <3>3. QED BY <2>2, <3>2 DEF Has
  <2>7. Tidy(start \o polls)
      BY <2>3, <2>5, <2>6, AskedFirst
  <2>8. QED BY <1>2, <1>3, <2>7, Zenon DEF run_CBA_health_check, start, polls
<1>5. ASSUME NEW updateable PROVE Proper(update_licenses(updateable))
  <2>1. Tidy(<<Request("keyfile", FALSE), Poll("keyfile", "finished")>>)
    <3>1. Request("keyfile", FALSE).do = "request"
        BY DEF Request, Line
    <3>2. QED BY <3>1, RequestAndPoll
  <2>2. Calm(Open \o Look \o When(updateable, Transaction(<<Edit1("fingerprint")>>) \o Look))
      BY Zenon
  <2>3. Calm(grant_licenses)
      BY Zenon DEF grant_licenses
  <2>4. QED BY <1>1, <1>2, <1>3, <2>1, <2>2, <2>3, Joins, Zenon DEF update_licenses
<1>6. QED BY <1>4, <1>5

\* What two programs do, one after the other.
LEMMA HasJoined ==
    ASSUME NEW p, IsProgram(p), NEW q, IsProgram(q), NEW do
    PROVE  IsProgram(p \o q) /\ (Has(p \o q, do) <=> Has(p, do) \/ Has(q, do))
<1> DEFINE r == p \o q
<1>1. Joint(p, q, r)
    BY JoinedIs
<1>2. IsProgram(r)
    BY <1>1 DEF Joint
<1> HIDE DEF r
<1>3. ASSUME Has(r, do) PROVE Has(p, do) \/ Has(q, do)
  <2>1. PICK i \in 1 .. Len(r) : r[i].do = do
      BY <1>3 DEF Has
  <2>2. CASE i <= Len(p)
      BY <1>1, <2>1, <2>2 DEF Joint, Has
  <2>3. CASE i > Len(p)
    <3>1. i - Len(p) \in 1 .. Len(q) /\ Len(p) + (i - Len(p)) = i
        BY <1>1, <2>1, <2>3 DEF Joint
    <3>2. q[i - Len(p)] = r[i]
        BY <1>1, <3>1 DEF Joint
    <3>3. QED BY <2>1, <3>1, <3>2 DEF Has
  <2>4. QED BY <1>1, <2>1, <2>2, <2>3 DEF Joint
<1>4. ASSUME Has(p, do) PROVE Has(r, do)
    BY <1>1, <1>4 DEF Joint, Has
<1>5. ASSUME Has(q, do) PROVE Has(r, do)
  <2>1. PICK i \in 1 .. Len(q) : q[i].do = do
      BY <1>5 DEF Has
  <2>2. Len(p) + i \in 1 .. Len(r) /\ r[Len(p) + i] = q[i]
      BY <1>1 DEF Joint
  <2>3. QED BY <2>1, <2>2 DEF Has
<1>6. QED BY <1>2, <1>3, <1>4, <1>5 DEF r

\* Two lines that have nothing to do with a transaction.
LEMMA TwoLines ==
    ASSUME NEW a, NEW b, a.do \notin {"edit", "poll", "commit"}, b.do \notin {"edit", "poll", "commit"}
    PROVE  /\ Tidy(<<a, b>>)
           /\ (a.do = "request" => a.checked) /\ (b.do = "request" => b.checked) => Calm(<<a, b>>)
<1> DEFINE p == <<a, b>>
<1>1. IsProgram(p) /\ Len(p) = 2 /\ p[1] = a /\ p[2] = b
    BY Lists
<1> HIDE DEF p
<1>2. \A i \in 1 .. Len(p) : i = 1 \/ i = 2
    BY <1>1
<1>3. \A n \in 0 .. Len(p) : ~Editing(p, n)
    BY <1>1, <1>2 DEF Editing, Before
<1>4. ~Awaits(p)
    BY <1>1, <1>2 DEF Awaits, Before
<1>5. Whole(p)
    BY <1>1, <1>2, <1>3 DEF Whole, Parts
<1>6. (a.do = "request" => a.checked) /\ (b.do = "request" => b.checked) => Looked(p)
    BY <1>1, <1>2 DEF Looked
<1>7. QED BY <1>1, <1>4, <1>5, <1>6 DEF Calm, Tidy, p

\* run_CBA_restore_backup: its waits come last, and no line opens a session after them.
LEMMA RestoreProper ==
    \A named, skip_reload : Proper(run_CBA_restore_backup(named, skip_reload))
<1> DEFINE asks == <<RequestTried("backup"), Line("poll_restore", "backup", "", TRUE)>>
           broken == Line("wait_broken", "", "", TRUE)
           reloads == Line("wait_reload", "", "", TRUE)
           waits == <<broken, reloads>>
<1>1. /\ RequestTried("backup").do = "request"
      /\ Line("poll_restore", "backup", "", TRUE).do = "poll_restore"
      /\ broken.do = "wait_broken" /\ reloads.do = "wait_reload"
    BY DEF RequestTried, Line
<1>2. Tidy(asks)
    BY <1>1, TwoLines
<1>3. Calm(waits)
  <2> HIDE DEF broken, reloads
  <2>1. QED BY <1>1, TwoLines
<1>4. /\ IsProgram(asks) /\ Len(asks) = 2 /\ asks[1].do = "request" /\ asks[2].do = "poll_restore"
      /\ IsProgram(waits) /\ Len(waits) = 2 /\ waits[1].do = "wait_broken" /\ waits[2].do = "wait_reload"
    BY <1>1, Lists
<1>5. /\ IsProgram(Open) /\ Len(Open) = 1 /\ Open[1].do = "open"
      /\ IsProgram(Look) /\ Len(Look) = 1 /\ Look[1].do = "look"
    BY Lists DEF Open, Look, Line
<1> HIDE DEF asks, waits
<1> TAKE named, skip_reload
<1> DEFINE looks == When(named, Look)
           ends == Open \o looks \o asks
           p == ends \o waits
<1>6. Tidy(ends) /\ Tidy(p)
  <2>1. Tidy(Open \o looks)
      BY LinesCalm, Rules DEF Calm
  <2>2. Tidy(waits)
      BY <1>3 DEF Calm
  <2>3. QED BY <1>2, <2>1, <2>2, Joins, Zenon
<1>7. CASE skip_reload
  <2>1. When(~skip_reload, waits) = <<>>
      BY <1>7 DEF When
  <2>2. Tidy(ends \o When(~skip_reload, waits))
    <3>1. Tidy(<<>>)
        BY LinesCalm DEF Calm
    <3>2. QED BY <1>6, <2>1, <3>1, Joins, Zenon
  <2>3. Proper(Operation("restore_backup -s", ends \o When(~skip_reload, waits)))
    <3>1. "restore_backup -s" \in Unlooked \ {"restore_backup"}
        BY DEF Unlooked
    <3>2. QED BY <2>2, <3>1, TidyProper, Zenon
  <2>4. QED BY <1>7, <2>3, Zenon DEF run_CBA_restore_backup, asks, waits
<1>8. CASE ~skip_reload
  <2>1. IsProgram(looks) /\ \A do : Has(looks, do) => do = "look"
    <3>1. looks = Look \/ looks = <<>>
        BY DEF When
    <3> HIDE DEF looks
    <3>2. \A do : Has(Look, do) => do = "look"
        BY <1>5 DEF Has
    <3>3. QED BY <1>5, <3>1, <3>2, Nothing
  <2>2. /\ \A do : Has(Open, do) <=> do = "open"
        /\ \A do : Has(asks, do) => do \in {"request", "poll_restore"}
    <3>1. \A i \in 1 .. Len(asks) : i = 1 \/ i = 2
        BY <1>4
    <3>2. \A do : Has(asks, do) => do \in {"request", "poll_restore"}
        BY <1>4, <3>1 DEF Has
    <3>3. \A do : Has(Open, do) <=> do = "open"
        BY <1>5 DEF Has
    <3>4. QED BY <3>2, <3>3
  <2>3. IsProgram(Open \o looks) /\ \A do : Has(Open \o looks, do) <=> Has(Open, do) \/ Has(looks, do)
      BY <1>5, <2>1, HasJoined
  <2>4. /\ IsProgram(ends)
        /\ \A do : Has(ends, do) <=> Has(Open, do) \/ Has(looks, do) \/ Has(asks, do)
      BY <1>4, <2>3, HasJoined
  <2> HIDE DEF looks
  <2>5. Has(ends, "open") /\ ~Has(ends, "reboot") /\ ~Has(ends, "wait_broken")
    <3>1. Has(ends, "open")
        BY <2>2, <2>4
    <3>2. ~Has(ends, "reboot")
        BY <2>1, <2>2, <2>4
    <3>3. ~Has(ends, "wait_broken")
        BY <2>1, <2>2, <2>4
    <3>4. QED BY <3>1, <3>2, <3>3
  <2> HIDE DEF ends
  <2>6. Joint(ends, waits, p)
      BY <1>4, <2>4, JoinedIs
  <2> DEFINE n == Len(ends)
  <2>7. /\ n \in Nat /\ Len(p) = n + 2 /\ IsProgram(p)
        /\ \A i \in 1 .. n : p[i] = ends[i]
        /\ p[n + 1].do = "wait_broken" /\ p[n + 2].do = "wait_reload"
      BY <1>4, <2>6 DEF Joint
  <2>8. \A i \in 1 .. Len(p) : i \in 1 .. n \/ i = n + 1 \/ i = n + 2
      BY <2>7
  <2> HIDE DEF p, n
  <2>9. \A i \in 1 .. n : p[i].do \notin {"reboot", "wait_broken"}
      BY <2>5, <2>7 DEF Has, n
  <2>10. Has(p, "open") /\ Has(p, "wait_broken")
    <3>1. n + 1 \in 1 .. Len(p)
        BY <2>7
    <3>2. PICK i \in 1 .. n : ends[i].do = "open"
        BY <2>5 DEF Has, n
    <3>3. i \in 1 .. Len(p) /\ p[i].do = "open"
        BY <2>7, <3>2
    <3>4. QED BY <2>7, <3>1, <3>3 DEF Has
  <2>11. ~Has(p, "reboot")
      BY <2>7, <2>8, <2>9 DEF Has
  <2>12. ASSUME NEW i \in 1 .. Len(p), p[i].do = "wait_broken", NEW k \in i .. Len(p)
         PROVE  p[k].do \notin {"open", "request"}
    <3>1. i = n + 1
        BY <2>7, <2>8, <2>9, <2>12
    <3>2. k = n + 1 \/ k = n + 2
        BY <2>7, <2>12, <3>1
    <3>3. QED BY <2>7, <3>2
  <2>13. p # <<>>
      BY <2>7
  <2>14. Reloads(p)
      BY <2>7, <2>11, <2>12 DEF Reloads
  <2>15. Tidy(p) /\ "restore_backup" \in Unlooked /\ "restore_backup" \notin Strict
      BY <1>6 DEF Unlooked, Strict
  <2>16. Proper(Operation("restore_backup", p))
      BY <2>10, <2>13, <2>14, <2>15, OperationProper, Zenon
  <2>17. p = ends \o When(~skip_reload, waits)
      BY <1>8 DEF p, When
  <2>18. QED BY <1>8, <2>16, <2>17, Zenon DEF run_CBA_restore_backup, ends, looks, asks, waits
<1>9. QED BY <1>7, <1>8

\* A program that leaves g set, and one that leaves it alone.
Setting(p, g) == IsProgram(p) /\ LastSet(p, g)
Leaves(p, g) == IsProgram(p) /\ Untouched(p, g)

SetsOfBoth(p, q, r) ==
    /\ IsProgram(r) /\ Len(p) \in Nat
    /\ \A i \in Sets(p) : i \in Sets(r) /\ r[i] = p[i] /\ i \in 1 .. Len(p)
    /\ \A i \in Sets(q) : i \in Nat \ {0} /\ Len(p) + i \in Sets(r) /\ r[Len(p) + i] = q[i]
    /\ \A i \in Sets(r) : \/ i \in Sets(p) /\ i \in 1 .. Len(p) /\ r[i] = p[i]
                          \/ /\ i \in Nat /\ i > Len(p) /\ i - Len(p) \in Sets(q)
                             /\ r[i] = q[i - Len(p)]

\* The places of two programs that set something.
LEMMA SetsJoined ==
    ASSUME NEW p, IsProgram(p), NEW q, IsProgram(q), NEW r, r = p \o q
    PROVE  SetsOfBoth(p, q, r)
<1>1. Joint(p, q, r)
    BY JoinedIs
<1>2. /\ IsProgram(r) /\ Len(p) \in Nat /\ Len(q) \in Nat /\ Len(r) = Len(p) + Len(q)
      /\ \A i \in 1 .. Len(p) : r[i] = p[i]
      /\ \A i \in 1 .. Len(q) : r[Len(p) + i] = q[i]
    BY <1>1 DEF Joint
<1>3. \A i \in Sets(p) : i \in Sets(r) /\ r[i] = p[i] /\ i \in 1 .. Len(p)
    BY <1>2 DEF Sets
<1>4. \A i \in Sets(q) : i \in Nat \ {0} /\ Len(p) + i \in Sets(r) /\ r[Len(p) + i] = q[i]
    BY <1>2 DEF Sets
<1>5. ASSUME NEW i \in Sets(r)
      PROVE  \/ i \in Sets(p) /\ i \in 1 .. Len(p) /\ r[i] = p[i]
             \/ i \in Nat /\ i > Len(p) /\ i - Len(p) \in Sets(q) /\ r[i] = q[i - Len(p)]
  <2>1. i \in 1 .. Len(r) /\ r[i].do \in {"edit", "put"}
      BY DEF Sets
  <2>2. CASE i <= Len(p)
      BY <1>2, <2>1, <2>2 DEF Sets
  <2>3. CASE i > Len(p)
    <3>1. i \in Nat /\ i - Len(p) \in 1 .. Len(q) /\ Len(p) + (i - Len(p)) = i
        BY <1>2, <2>1, <2>3
    <3>2. r[i] = q[i - Len(p)]
        BY <1>2, <3>1
    <3>3. QED BY <2>1, <2>3, <3>1, <3>2 DEF Sets
  <2>4. QED BY <1>2, <2>1, <2>2, <2>3
<1>6. QED BY <1>2, <1>3, <1>4, <1>5 DEF SetsOfBoth

\* What the last of two programs to set an attribute sets.
LEMMA SetsRules ==
    /\ \A p, q, g : Leaves(p, g) /\ Leaves(q, g) => Leaves(p \o q, g)
    /\ \A p, q, g : Setting(p, g) /\ Leaves(q, g) => Setting(p \o q, g)
    /\ \A p, q, g : IsProgram(p) /\ Setting(q, g) => Setting(p \o q, g)
<1>1. ASSUME NEW p, IsProgram(p), NEW q, IsProgram(q), NEW g
      PROVE  /\ IsProgram(p \o q)
             /\ Untouched(p, g) /\ Untouched(q, g) => Untouched(p \o q, g)
             /\ LastSet(p, g) /\ Untouched(q, g) => LastSet(p \o q, g)
             /\ LastSet(q, g) => LastSet(p \o q, g)
  <2> DEFINE r == p \o q
             l == Len(p)
  <2>1. /\ IsProgram(r) /\ l \in Nat
        /\ \A i \in Sets(p) : i \in Sets(r) /\ r[i] = p[i] /\ i \in 1 .. l
        /\ \A i \in Sets(q) : i \in Nat \ {0} /\ l + i \in Sets(r) /\ r[l + i] = q[i]
        /\ \A i \in Sets(r) : \/ i \in Sets(p) /\ i \in 1 .. l /\ r[i] = p[i]
                              \/ i \in Nat /\ i > l /\ i - l \in Sets(q) /\ r[i] = q[i - l]
    <3> HIDE DEF r
    <3>1. r = p \o q
        BY DEF r
    <3>2. SetsOfBoth(p, q, r)
        BY <1>1, <3>1, SetsJoined
    <3>3. QED BY <3>2 DEF SetsOfBoth
  <2> HIDE DEF r, l
  <2>2. ASSUME Untouched(p, g), Untouched(q, g) PROVE Untouched(r, g)
      BY <2>1, <2>2 DEF Untouched
  <2>3. ASSUME LastSet(p, g), Untouched(q, g) PROVE LastSet(r, g)
    <3>1. PICK i \in Sets(p) : Pair(p[i]) = g /\ \A k \in Sets(p) : k > i => p[k].attr # g[1]
        BY <2>3 DEF LastSet
    <3>2. i \in Sets(r) /\ Pair(r[i]) = g
        BY <2>1, <3>1
    <3>3. \A k \in Sets(r) : k > i => r[k].attr # g[1]
        BY <2>1, <2>3, <3>1 DEF Untouched
    <3>4. QED BY <3>2, <3>3 DEF LastSet
  <2>4. ASSUME LastSet(q, g) PROVE LastSet(r, g)
    <3>1. PICK i \in Sets(q) : Pair(q[i]) = g /\ \A k \in Sets(q) : k > i => q[k].attr # g[1]
        BY <2>4 DEF LastSet
    <3>2. l + i \in Sets(r) /\ Pair(r[l + i]) = g /\ i \in Nat
        BY <2>1, <3>1
    <3>3. ASSUME NEW k \in Sets(r), k > l + i PROVE r[k].attr # g[1]
      <4>1. k - l \in Sets(q) /\ r[k] = q[k - l] /\ k - l > i
          BY <2>1, <3>2, <3>3
      <4>2. QED BY <3>1, <4>1
    <3>4. QED BY <3>2, <3>3 DEF LastSet
  <2>5. QED BY <2>1, <2>2, <2>3, <2>4 DEF r
<1>2. QED BY <1>1, Zenon DEF Leaves, Setting

\* Lines that leave an attribute alone, and the edit that sets it.
LEMMA LinesLeave ==
    /\ \A g : Leaves(<<>>, g) /\ Leaves(Open, g) /\ Leaves(Look, g)
                /\ Leaves(<<Configure>>, g) /\ Leaves(<<Commit>>, g)
    /\ \A attr, val, g : attr # g[1] => Leaves(<<Edit(attr, val)>>, g)
    /\ \A attr, val, g : g = <<attr, val>> => Setting(<<Edit(attr, val)>>, g)
<1>1. ASSUME NEW line, line.do \notin {"edit", "put"}, NEW g PROVE Leaves(<<line>>, g)
  <2>1. IsProgram(<<line>>) /\ Sets(<<line>>) = {}
      BY <1>1, Lists DEF Sets
  <2>2. QED BY <2>1 DEF Leaves, Untouched
<1>2. ASSUME NEW g
      PROVE  Leaves(<<>>, g) /\ Leaves(Open, g) /\ Leaves(Look, g)
                /\ Leaves(<<Configure>>, g) /\ Leaves(<<Commit>>, g)
  <2>1. /\ Line("open", "", "", TRUE).do = "open" /\ Line("look", "", "", TRUE).do = "look"
        /\ Configure.do = "configure" /\ Commit.do = "commit"
      BY DEF Line, Configure, Commit
  <2>2. Leaves(<<>>, g)
      BY Nothing DEF Leaves
  <2>3. /\ Leaves(<<Line("open", "", "", TRUE)>>, g) /\ Leaves(<<Line("look", "", "", TRUE)>>, g)
        /\ Leaves(<<Configure>>, g) /\ Leaves(<<Commit>>, g)
    <3> DEFINE a == Line("open", "", "", TRUE)
               b == Line("look", "", "", TRUE)
    <3>1. a.do = "open" /\ b.do = "look"
        BY <2>1
    <3> HIDE DEF a, b
    <3>2. Leaves(<<a>>, g) /\ Leaves(<<b>>, g) /\ Leaves(<<Configure>>, g) /\ Leaves(<<Commit>>, g)
        BY <1>1, <2>1, <3>1
    <3>3. QED BY <3>2 DEF a, b
  <2>4. QED BY <2>2, <2>3, Zenon DEF Open, Look
<1>3. ASSUME NEW attr, NEW val, NEW g
      PROVE  /\ attr # g[1] => Leaves(<<Edit(attr, val)>>, g)
             /\ g = <<attr, val>> => Setting(<<Edit(attr, val)>>, g)
  <2> DEFINE e == Edit(attr, val)
             p == <<e>>
  <2>1. e.do = "edit" /\ e.attr = attr /\ e.val = val
      BY DEF Edit, Line
  <2> HIDE DEF e
  <2>2. IsProgram(p) /\ Len(p) = 1 /\ p[1] = e
      BY Lists
  <2> HIDE DEF p
  <2>3. Sets(p) = {1}
      BY <2>1, <2>2 DEF Sets
  <2>4. attr # g[1] => Untouched(p, g)
      BY <2>1, <2>2, <2>3 DEF Untouched
  <2>5. g = <<attr, val>> => LastSet(p, g)
      BY <2>1, <2>2, <2>3 DEF LastSet, Pair
  <2>6. QED BY <2>2, <2>4, <2>5 DEF Leaves, Setting, p, e
<1>4. QED BY <1>2, <1>3

\* The attributes of the two NTP servers.
LEMMA ServerNames ==
    NtpServer(1) = "ntp1" /\ NtpServer(2) = "ntp2"
BY DEF NtpServer

\* What the lines of each server set.
LEMMA NtpSets ==
    \A id \in {1, 2} : \A ip, g :
       /\ Calm(update_ntp_server_cliss(ip, id)) /\ Calm(add_ntp_server_cliss(ip, id))
       /\ Calm(remove_ntp_server_cliss(id))
       /\ g = <<NtpServer(id), ip>> =>
             Setting(update_ntp_server_cliss(ip, id), g) /\ Setting(add_ntp_server_cliss(ip, id), g)
       /\ g = <<NtpServer(id), "none">> => Setting(remove_ntp_server_cliss(id), g)
       /\ NtpServer(id) # g[1] =>
             /\ Leaves(update_ntp_server_cliss(ip, id), g) /\ Leaves(remove_ntp_server_cliss(id), g)
             /\ g[1] # "administrativeState" => Leaves(add_ntp_server_cliss(ip, id), g)
<1> TAKE id \in {1, 2}
<1> TAKE ip, g
<1> USE LinesLeave, SetsRules
<1>1. /\ Calm(update_ntp_server_cliss(ip, id)) /\ Calm(add_ntp_server_cliss(ip, id))
      /\ Calm(remove_ntp_server_cliss(id))
    BY LinesCalm, Rules, EditLists, Zenon
       DEF update_ntp_server_cliss, add_ntp_server_cliss, remove_ntp_server_cliss
<1>2. IsProgram(Open) /\ IsProgram(<<Configure>>)
    BY Lists, Zenon DEF Open
<1>3. ASSUME NEW edits, Setting(edits, g) PROVE Setting(Open \o Transaction(edits), g)
  <2>1. Setting(<<Configure>> \o edits, g)
      BY <1>2, <1>3, Zenon
  <2>2. Setting(Transaction(edits), g)
      BY <2>1, Zenon DEF Transaction
  <2>3. QED BY <1>2, <2>2, Zenon
<1>4. ASSUME NEW edits, Leaves(edits, g) PROVE Leaves(Open \o Transaction(edits), g)
    BY <1>4, Zenon DEF Transaction
<1> DEFINE p == <<Edit1(NtpServer(id)), Edit(NtpServer(id), ip), Edit("administrativeState", "UNLOCKED")>>
<1>5. /\ IsProgram(p) /\ Sets(p) = {1, 2, 3} /\ p[1].attr = NtpServer(id)
      /\ p[2].attr = NtpServer(id) /\ p[2].val = ip /\ p[3].attr = "administrativeState"
  <2> DEFINE first == Edit1(NtpServer(id))
             second == Edit(NtpServer(id), ip)
             third == Edit("administrativeState", "UNLOCKED")
  <2>1. /\ first.do = "edit" /\ second.do = "edit" /\ third.do = "edit" /\ first.attr = NtpServer(id)
        /\ second.attr = NtpServer(id) /\ second.val = ip /\ third.attr = "administrativeState"
      BY DEF Edit1, Edit, Line
  <2> HIDE DEF first, second, third
  <2> DEFINE q == <<first, second, third>>
  <2>2. IsProgram(q) /\ Len(q) = 3 /\ q[1] = first /\ q[2] = second /\ q[3] = third
    <3>1. \A a, b, c : <<a, b, c>> \in Seq({a, b, c})
        OBVIOUS
    <3>2. IsProgram(q)
        BY <3>1, Zenon DEF IsProgram
    <3>3. QED BY <3>2
  <2> HIDE DEF q
  <2>3. Sets(q) = {1, 2, 3}
      BY <2>1, <2>2 DEF Sets
  <2>4. p = q
      BY DEF p, q, first, second, third
  <2> HIDE DEF p
  <2>5. QED BY <2>1, <2>2, <2>3, <2>4
<1>6. add_ntp_server_cliss(ip, id) = Open \o Transaction(p)
    BY Zenon DEF add_ntp_server_cliss
<1> HIDE DEF p
<1>0. NtpServer(id) # "administrativeState"
    BY ServerNames
<1>7. ASSUME g = <<NtpServer(id), ip>>
      PROVE  Setting(update_ntp_server_cliss(ip, id), g) /\ Setting(add_ntp_server_cliss(ip, id), g)
  <2>1. Setting(update_ntp_server_cliss(ip, id), g)
      BY <1>3, <1>7, Zenon DEF update_ntp_server_cliss
  <2>2. Pair(p[2]) = g /\ \A k \in Sets(p) : k > 2 => p[k].attr # g[1]
      BY <1>5, <1>0, <1>7 DEF Pair
  <2>3. Setting(p, g)
      BY <1>5, <2>2 DEF Setting, LastSet
  <2>4. Setting(Open \o Transaction(p), g)
      BY <1>3, <2>3, Zenon
  <2>5. QED BY <1>6, <2>1, <2>4
<1>8. ASSUME NtpServer(id) # g[1], g[1] # "administrativeState"
      PROVE  Leaves(add_ntp_server_cliss(ip, id), g)
  <2>1. Leaves(p, g)
      BY <1>5, <1>8 DEF Leaves, Untouched
  <2>2. Leaves(Open \o Transaction(p), g)
      BY <1>4, <2>1, Zenon
  <2>3. QED BY <1>6, <2>2
<1>9. ASSUME g = <<NtpServer(id), "none">> PROVE Setting(remove_ntp_server_cliss(id), g)
    BY <1>3, <1>9, Zenon DEF remove_ntp_server_cliss, No
<1>10. ASSUME NtpServer(id) # g[1]
      PROVE  Leaves(update_ntp_server_cliss(ip, id), g) /\ Leaves(remove_ntp_server_cliss(id), g)
    BY <1>4, <1>10, Zenon DEF update_ntp_server_cliss, remove_ntp_server_cliss, No
<1>11. QED BY <1>1, <1>7, <1>8, <1>9, <1>10

\* update_ntp_servers, for any servers the node has and any list: what the caller asked
\* for is what the last edit of each server sets.
LEMMA NtpProper ==
    ASSUME NEW ids \in 0 .. 2, NEW n \in 1 .. 3, NEW list \in [1 .. n -> Ip]
    PROVE  Proper(update_ntp_servers(ids, list))
<1> DEFINE first == update_ntp_server_cliss(list[1], 1)
           second == update_ntp_server_cliss(list[2], 2)
           adds == add_ntp_server_cliss(list[2], 2)
           removes == remove_ntp_server_cliss(2)
           info == get_ntp_servers_info_cliss
           sends == update_ntp_servers_cliss(ids, list)
           q == info \o sends
<1>1. Len(list) = n /\ n \in Nat
    OBVIOUS
<1>2. Calm(first) /\ Calm(second) /\ Calm(adds) /\ Calm(removes) /\ Calm(info)
  <2>1. 1 \in {1, 2} /\ 2 \in {1, 2}
      OBVIOUS
  <2>2. Calm(first) /\ Calm(second) /\ Calm(adds) /\ Calm(removes)
      BY <2>1, NtpSets, Zenon
  <2>3. Calm(info)
      BY LinesCalm, Rules, Zenon DEF get_ntp_servers_info_cliss
  <2>4. QED BY <2>2, <2>3
<1>3. \A g : /\ g = <<"ntp1", list[1]>> => Setting(first, g)
             /\ g = <<"ntp2", list[2]>> => Setting(second, g) /\ Setting(adds, g)
             /\ g = <<"ntp2", "none">> => Setting(removes, g)
             /\ g[1] = "ntp1" => Leaves(second, g) /\ Leaves(adds, g) /\ Leaves(removes, g)
  <2> TAKE g
  <2>0. 1 \in {1, 2} /\ 2 \in {1, 2}
      OBVIOUS
  <2>1. g = <<"ntp1", list[1]>> => Setting(first, g)
      BY <2>0, NtpSets, ServerNames, Zenon
  <2>2. g = <<"ntp2", list[2]>> => Setting(second, g) /\ Setting(adds, g)
      BY <2>0, NtpSets, ServerNames, Zenon
  <2>3. g = <<"ntp2", "none">> => Setting(removes, g)
      BY <2>0, NtpSets, ServerNames, Zenon
  <2>4. "ntp2" # "ntp1" /\ "ntp1" # "administrativeState"
      OBVIOUS
  <2>5. g[1] = "ntp1" => Leaves(second, g) /\ Leaves(adds, g) /\ Leaves(removes, g)
    <3>1. g[1] = "ntp1" => NtpServer(2) # g[1] /\ g[1] # "administrativeState"
        BY <2>4, ServerNames
    <3>2. QED BY <2>0, <3>1, NtpSets, Zenon
  <2>6. QED BY <2>1, <2>2, <2>3, <2>5
<1>4. sends = IF n >= ids
              THEN When(ids >= 1, first) \o When(ids >= 2, second) \o When(ids = 1 /\ n > 1, adds)
              ELSE When(n >= 1, first) \o When(n = 1 /\ ids > 1, removes)
    BY <1>1, Zenon DEF update_ntp_servers_cliss
<1>5. NtpGoal(ids, list) = IF ids = 0 \/ n \notin 1 .. 2 THEN {}
                           ELSE {<<NtpServer(i), list[i]>> : i \in 1 .. n}
                                \cup {<<NtpServer(i), "none">> : i \in (n + 1) .. ids}
    BY <1>1 DEF NtpGoal
<1> HIDE DEF first, second, adds, removes, info, sends, q
<1>6. Calm(sends)
  <2>1. CASE n >= ids
      BY <1>2, <1>4, <2>1, Rules
  <2>2. CASE ~(n >= ids)
      BY <1>2, <1>4, <2>2, Rules
  <2>3. QED BY <2>1, <2>2
<1>7. Calm(q) /\ IsProgram(info)
    BY <1>2, <1>6, Rules DEF q, Calm, Tidy
<1>8. ASSUME NEW g \in NtpGoal(ids, list) PROVE Setting(sends, g)
  <2>0. /\ \A x : \A y : Setting(x, g) /\ Leaves(y, g) => Setting(x \o y, g)
        /\ \A x : \A y : Calm(x) /\ Setting(y, g) => Setting(x \o y, g)
        /\ Leaves(<<>>, g) /\ Calm(<<>>)
      BY SetsRules, LinesLeave, LinesCalm, Zenon DEF Calm, Tidy
  <2>1. ids # 0 /\ n \in 1 .. 2 /\ ids \in 1 .. 2
      BY <1>5
  <2>2. \/ \E i \in 1 .. n : g = <<NtpServer(i), list[i]>>
        \/ \E i \in (n + 1) .. ids : g = <<NtpServer(i), "none">>
      BY <1>5, <2>1
  <2>3. \/ g = <<"ntp1", list[1]>>
        \/ n = 2 /\ g = <<"ntp2", list[2]>>
        \/ n = 1 /\ ids = 2 /\ g = <<"ntp2", "none">>
    <3>1. CASE \E i \in 1 .. n : g = <<NtpServer(i), list[i]>>
        BY <2>1, <3>1, ServerNames
    <3>2. CASE \E i \in (n + 1) .. ids : g = <<NtpServer(i), "none">>
        BY <2>1, <3>2, ServerNames
    <3>3. QED BY <2>2, <3>1, <3>2
  <2>4. g = <<"ntp1", list[1]>> => g[1] = "ntp1"
      OBVIOUS
  <2>5. CASE ids = 1 /\ n = 1
    <3>1. sends = first \o <<>> \o <<>>
        BY <1>4, <2>5 DEF When
    <3>2. Setting(first \o <<>> \o <<>>, g)
        BY <1>3, <2>0, <2>3, <2>5
    <3>3. QED BY <3>1, <3>2
  <2>6. CASE ids = 1 /\ n = 2
    <3>1. sends = first \o <<>> \o adds
        BY <1>4, <2>6 DEF When
    <3>2. CASE g = <<"ntp1", list[1]>>
      <4>1. Setting(first \o <<>> \o adds, g)
          BY <1>3, <2>0, <2>4, <3>2, Zenon
      <4>2. QED BY <3>1, <4>1
    <3>3. CASE g = <<"ntp2", list[2]>>
      <4>1. Setting(first \o <<>> \o adds, g)
          BY <1>2, <1>3, <2>0, <3>3, Rules, Zenon
      <4>2. QED BY <3>1, <4>1
    <3>4. QED BY <2>3, <2>6, <3>2, <3>3
  <2>7. CASE ids = 2 /\ n = 2
    <3>1. sends = first \o second \o <<>>
        BY <1>4, <2>7 DEF When
    <3>2. CASE g = <<"ntp1", list[1]>>
      <4>1. Setting(first \o second \o <<>>, g)
          BY <1>3, <2>0, <2>4, <3>2, Zenon
      <4>2. QED BY <3>1, <4>1
    <3>3. CASE g = <<"ntp2", list[2]>>
      <4>1. Setting(first \o second \o <<>>, g)
          BY <1>2, <1>3, <2>0, <3>3, Rules, Zenon
      <4>2. QED BY <3>1, <4>1
    <3>4. QED BY <2>3, <2>7, <3>2, <3>3
  <2>8. CASE ids = 2 /\ n = 1
    <3>1. sends = first \o removes
        BY <1>4, <2>8 DEF When
    <3>2. CASE g = <<"ntp1", list[1]>>
      <4>1. Setting(first \o removes, g)
          BY <1>3, <2>0, <2>4, <3>2, Zenon
      <4>2. QED BY <3>1, <4>1
    <3>3. CASE g = <<"ntp2", "none">>
      <4>1. Setting(first \o removes, g)
          BY <1>2, <1>3, <2>0, <3>3, Zenon
      <4>2. QED BY <3>1, <4>1
    <3>4. QED BY <2>3, <2>8, <3>2, <3>3
  <2>9. QED BY <2>1, <2>5, <2>6, <2>7, <2>8
<1>9. \A g \in NtpGoal(ids, list) : LastSet(q, g)
  <2>1. ASSUME NEW g \in NtpGoal(ids, list) PROVE Setting(q, g)
      BY <1>7, <1>8, SetsRules DEF q
  <2>2. QED BY <2>1 DEF Setting
<1> DEFINE o == Operation("update_ntp_servers", q)
           r == [o EXCEPT !.goal = NtpGoal(ids, list)]
<1>10. Proper(o)
    BY <1>7, CalmProper, OtherNames, Zenon
<1>11. /\ r.name = o.name /\ r.prog = o.prog /\ r.edits = o.edits /\ r.goal = NtpGoal(ids, list)
       /\ o.prog = q
       /\ r \in [name : {r.name}, prog : {r.prog}, goal : {r.goal}, edits : {r.edits}, level : {r.level}]
    BY DEF Operation
<1> HIDE DEF o, r
<1>12. Shaped(r)
  <2>1. \E N, P, G, E, L : r \in [name : N, prog : P, goal : G, edits : E, level : L]
    <3> DEFINE A == {r.name}
               B == {r.prog}
               C == {r.goal}
               D == {r.edits}
               F == {r.level}
    <3>1. r \in [name : A, prog : B, goal : C, edits : D, level : F]
        BY <1>11
    <3> HIDE DEF A, B, C, D, F
    <3>2. QED BY <3>1, Zenon
  <2>2. QED BY <1>10, <1>11, <2>1 DEF Proper, Shaped
<1>13. WellFormed(r)
    BY <1>9, <1>10, <1>11 DEF Proper, WellFormed
<1>14. Proper(r)
    BY <1>12, <1>13 DEF Proper
<1>15. QED BY <1>14, Zenon DEF update_ntp_servers, r, o, q, info, sends

\* Every operation a script can call keeps its transactions whole, looks at what it has
\* to look at, and sets what it was called for.
LEMMA OperationsSound ==
    Sound
<1> DEFINE Single == {change_OwnGTAddress, delete_csr_cert_cliss, create_trusted_category_cliss,
     delete_trusted_category_cliss, enable_trusted_cert_cliss, disable_trusted_cert_cliss,
     config_cli_tls_cliss, delete_config_cli_tls_cliss, config_netconf_tls_cliss,
     delete_config_netconf_tls_cliss, config_flow_policy_cliss, delete_flow_policy_cliss,
     scale_in_payloads_cliss, run_CBA_schedule_backup, run_CBA_remove_schedule_backup,
     run_CBA_schedule_health_check, run_CBA_remove_schedule_health_check,
     run_CBA_create_backup, run_CBA_delete_backup, run_CBA_import_backup, run_CBA_export_backup,
     inst_csr_cert_cliss, inst_trusted_cert_cliss, nbi_lock_processor, nbi_unlock_processor,
     delete_trusted_cert_cliss, check_scaling_cliss, scalable_payloads_cliss}
           Flagged(f) == {add_csr_cert_cliss(f), run_cliss_command(f), run_CBA_health_check(f),
                          remove_dia_peer_node(f), update_licenses(f), unlock_traffic_modules(f)}
           Restoration == {run_CBA_restore_backup(n, s) : n, s \in BOOLEAN}
           Lists1 == UNION {[1 .. n -> Ip] : n \in 1 .. 3}
           Ntp == {update_ntp_servers(ids, list) : ids \in 0 .. 2, list \in Lists1}
<1>1. \A o \in Single : Proper(o)
    BY CertificatesProper, ProcessorEditsProper, ScaleInProper, StrictProper, ActionsProper, Zenon
<1>2. \A f : \A o \in Flagged(f) : Proper(o)
    BY CertificatesProper, ProcessorEditsProper, UnlookedProper, Zenon
<1>3. \A o \in Restoration : Proper(o)
  <2>1. \A o \in Restoration : \E n, s : o = run_CBA_restore_backup(n, s)
      OBVIOUS
  <2> HIDE DEF Restoration
  <2>2. QED BY <2>1, RestoreProper, Zenon
<1>4. \A o \in Ntp : Proper(o)
  <2>2. \A list \in Lists1 : \E n \in 1 .. 3 : list \in [1 .. n -> Ip]
      OBVIOUS
  <2> HIDE DEF Lists1
  <2>1. \A o \in Ntp : \E ids \in 0 .. 2, list \in Lists1 : o = update_ntp_servers(ids, list)
      OBVIOUS
  <2> HIDE DEF Ntp
  <2>3. QED BY <2>1, <2>2, NtpProper, Zenon
<1>5. ASSUME NEW o \in Operations
      PROVE  \/ o \in Queries \/ o \in Commands \/ o \in Single \/ \E f : o \in Flagged(f)
             \/ o \in Restoration \/ o \in Ntp
  <2> HIDE DEF Single, Restoration, Ntp
  <2>1. Operations = Queries \cup Commands \cup Single
            \cup {add_csr_cert_cliss(e) : e \in BOOLEAN}
            \cup {run_cliss_command(c) : c \in BOOLEAN}
            \cup {run_CBA_health_check(v) : v \in BOOLEAN}
            \cup {remove_dia_peer_node(d) : d \in BOOLEAN}
            \cup {unlock_traffic_modules(l) : l \in SUBSET {"IMS", "ESM"}}
            \cup Restoration
            \cup {update_licenses(u) : u \in BOOLEAN}
            \cup Ntp
      BY DEF Operations, Single, Restoration, Ntp
  <2>2. QED BY <2>1
<1> HIDE DEF Single, Flagged, Restoration, Ntp
<1>6. \A o \in Operations : Proper(o)
    BY <1>1, <1>2, <1>3, <1>4, <1>5, QueriesProper, CommandsProper
<1>7. QED BY <1>6, Zenon DEF Sound, Proper

-----------------------------------------------------------------------------
(* What the operations of a CBA node keep, and what follows from it.          *)
\* What holds between two lines of any operation.
CbaInv == CbaType /\ Transacts /\ Reported /\ Restores

\* No operation yet.
LEMMA CbaInitInv ==
    ASSUME CbaInit PROVE CbaInv
<1> DEFINE o == Operation("", <<>>)
<1>1. /\ o.prog = <<>> /\ o.name = ""
      /\ o \in [name : {o.name}, prog : {o.prog}, goal : {o.goal}, edits : {o.edits}, level : {o.level}]
    BY DEF Operation
<1> HIDE DEF o
<1>2. op = o
    BY DEF CbaInit, o
<1>3. IsProgram(<<>>)
    BY Nothing
<1>4. Shaped(op)
  <2>1. \E N, P, G, E, L : o \in [name : N, prog : P, goal : G, edits : E, level : L]
      BY <1>1, Zenon
  <2>2. QED BY <1>1, <1>2, <1>3, <2>1 DEF Shaped
<1>5. IsSession(session) /\ session.pending = {} /\ session.link = "none" /\ session.mode = "exec"
    BY DEF CbaInit, IsSession, NoSession
<1>6. TypeOK
    BY <1>5 DEF CbaInit, TypeOK, NoReport, States
<1>7. CbaType
    BY <1>4, <1>5, <1>6 DEF CbaType
<1>8. outcome = "none" /\ online = TRUE /\ ~refused /\ op.name = "" /\ op.prog = <<>>
    BY <1>1, <1>2 DEF CbaInit
<1>9. Transacts
    BY <1>5, <1>8, Nothing DEF Transacts, Goes, Whole
<1>10. Reported /\ Restores
    BY <1>8, Nothing DEF Reported, Restores, Goes
<1>11. QED BY <1>7, <1>9, <1>10 DEF CbaInv

\* Every step of the script, the node and its other clients keeps the invariant.
LEMMA CbaStepInv ==
    ASSUME CbaInv, [CbaNext]_cbaVars PROVE CbaInv'
<1>1. CbaType /\ Transacts /\ Reported /\ Restores
    BY DEF CbaInv
<1>2. CASE CbaNext
  <2>1. CbaType' /\ Transacts'
    <3>1. CASE start_CBACliss
        BY <1>1, <3>1, OpenTransacts
    <3>2. CASE SendConfigure \/ SendEdit \/ SendCommit
        BY <1>1, <3>2, SendTransacts
    <3>3. CASE \/ close_connection \/ Reading \/ CodeRaises \/ RunCommand \/ PutCommand
               \/ SendReboot \/ Reconnect \/ SendRequest \/ WaitBroken \/ WaitReload \/ SendOnBroken
        BY <1>1, <3>3, LinesTransact
    <3>4. CASE \/ PollEnds \/ PollRaises \/ PollRestore \/ PollRestoreDown \/ PollRestoreTimeout
               \/ LosePoll \/ LoseCommit
        BY <1>1, <3>4, PollsTransact
    <3>5. CASE Begin \/ ActionEnds \/ OtherClient \/ NodeDown \/ NodeUp \/ LoseSession
        BY <1>1, <3>5, NodeTransacts, OperationsSound
    <3>6. QED BY <1>2, <3>1, <3>2, <3>3, <3>4, <3>5, Zenon DEF CbaNext, Step
  <2>2. Reported' /\ Restores'
      BY <1>1, <1>2, ReportedKeeps, RestoresKeeps, OperationsSound
  <2>3. QED BY <2>1, <2>2 DEF CbaInv
<1>3. CASE UNCHANGED cbaVars
  <2>1. /\ session' = session /\ op' = op /\ outcome' = outcome /\ config' = config
        /\ report' = report /\ online' = online /\ reload' = reload /\ polled' = polled
        /\ refused' = refused /\ foreign' = foreign /\ early' = early /\ reloaded' = reloaded
      BY <1>3 DEF cbaVars
  <2>2. CbaType' /\ Transacts'
      BY <1>1, <2>1 DEF CbaType, TypeOK, Transacts, Goes, Doomed, Settled
  <2>3. Reported' /\ Restores'
      BY <1>1, <2>1 DEF Reported, Restores, Goes
  <2>4. QED BY <2>2, <2>3 DEF CbaInv
<1>4. QED BY <1>2, <1>3

\* Nothing is to be set or committed any more: it is in the configuration.
LEMMA WholeWhenDone ==
    ASSUME CbaInv PROVE DoneIsWhole
<1> SUFFICES ASSUME outcome = "done", op.name \in Strict \/ ~refused, NEW g \in op.goal
             PROVE  g \in config
    BY DEF DoneIsWhole
<1>1. op.prog = <<>> /\ ~refused /\ (Doomed \/ Settled(g))
    BY DEF CbaInv, Transacts, Goes
<1>2. ~Closing(<<>>, 0) /\ ~Held(<<>>, 0) /\ ~LastSet(<<>>, g)
    BY Nothing DEF Closing, Held, LastSet
<1>3. session.pending = {} /\ ~Doomed
    BY <1>1, <1>2 DEF CbaInv, Transacts, Doomed
<1>4. QED BY <1>1, <1>2, <1>3 DEF Settled

\* The wait for the broken connection is over.
LEMMA ReloadedWhenRestored ==
    ASSUME CbaInv PROVE RestoredIsReloaded
<1>1. ~Has(<<>>, "wait_broken")
    BY Nothing
<1>2. outcome = "done" => op.prog = <<>>
    BY DEF CbaInv, Transacts
<1>3. QED BY <1>1, <1>2 DEF CbaInv, Restores, Goes, RestoredIsReloaded

\* The end of a poll: the only step that leaves it well.
LEMMA OwnReportStep ==
    ASSUME CbaInv, CbaNext, Doing("poll"), outcome' # "failed", op'.prog # op.prog, ~foreign,
           op.name \in Unlooked => ~refused
    PROVE  report.own /\ report.state = "SUCCESS"
<1>1. outcome = "running" /\ op.prog # <<>> /\ Head(op.prog).do = "poll"
    BY DEF Doing
<1>2. \A do : Doing(do) => do = "poll"
    BY <1>1 DEF Doing
<1>3. IsProgram(op.prog) /\ op.prog[1].do = "poll"
    BY <1>1, TailLines DEF CbaInv, CbaType, Shaped
<1>4. Awaits(op.prog)
    BY <1>1, <1>3, BeforeHead DEF Awaits
<1>5. report.own \/ report.state = "none"
    BY <1>1, <1>4 DEF CbaInv, Reported, Goes
<1>6. ~Raise
    BY DEF Raise
<1>7. CASE PollEnds
    BY <1>5, <1>6, <1>7 DEF PollEnds
<1>8. CASE PollRaises
    BY <1>6, <1>8 DEF PollRaises
<1>9. op' # op /\ ~Begin
    BY <1>1 DEF Begin
<1>10. ~start_CBACliss /\ ~close_connection /\ ~SendConfigure /\ ~SendEdit /\ ~SendCommit
    BY <1>2 DEF start_CBACliss, close_connection, SendConfigure, SendEdit, SendCommit
<1>11. ~Reading /\ ~CodeRaises /\ ~RunCommand /\ ~PutCommand /\ ~SendReboot /\ ~Reconnect /\ ~SendRequest
    BY <1>2 DEF Reading, CodeRaises, RunCommand, PutCommand, SendReboot, Reconnect, SendRequest
<1>12. /\ ~PollRestore /\ ~PollRestoreDown /\ ~PollRestoreTimeout /\ ~WaitBroken /\ ~WaitReload
       /\ ~LoseCommit /\ ~LosePoll
    BY <1>2 DEF PollRestore, PollRestoreDown, PollRestoreTimeout, WaitBroken, WaitReload,
           LoseCommit, LosePoll
<1>13. ~SendOnBroken
    BY <1>6 DEF SendOnBroken
<1>14. ~ActionEnds /\ ~OtherClient /\ ~NodeDown /\ ~NodeUp /\ ~LoseSession
    BY <1>9 DEF ActionEnds, OtherClient, NodeDown, NodeUp, LoseSession
<1>15. QED BY <1>7, <1>8, <1>9, <1>10, <1>11, <1>12, <1>13, <1>14, Zenon DEF CbaNext, Step

(* CbaInv holds between any two lines of any operation of                  *)
(* hss_utils.node.cba and hss_utils.st_command.cba, whatever the node      *)
(* refuses, reports or loses.                                              *)
THEOREM CbaInvHolds ==
    CbaSpec => []CbaInv
<1>1. QED BY CbaInitInv, CbaStepInv, PTL DEF CbaSpec

(* The session, the report of the node and the flags of the operation      *)
(* under way keep their types.                                             *)
THEOREM CbaTypeHolds ==
    CbaSpec => []TypeOK
<1>1. CbaInv => TypeOK
    BY DEF CbaInv, CbaType
<1>2. QED BY <1>1, CbaInvHolds, PTL

(* Whichever operation returns without a refused edit, and every operation *)
(* that looks at each answer (run_backup_cmd, run_health_check_cmd) that   *)
(* returns, has put in place all it was called for, for any NTP servers    *)
(* and whatever was lost: start_CBACliss may throw the edits away, but     *)
(* then the commit is refused.                                             *)
THEOREM OperationsAreWhole ==
    CbaSpec => []DoneIsWhole
<1>1. QED BY WholeWhenDone, CbaInvHolds, PTL

(* run_CBA_restore_backup that waits for the reload returns only after the *)
(* node went down and is up again, whoever else orders backups and also    *)
(* when a failed poll was taken for the reload, unless the wait for the    *)
(* reload to begin met a node that was up and not well.                    *)
THEOREM RestoreWaitsForReload ==
    CbaSpec => []RestoredIsReloaded
<1>1. QED BY ReloadedWhenRestored, CbaInvHolds, PTL

(* A commit puts in the configuration only what its own operation has sent *)
(* on the shared session 'cliss_hssadministrator', never what an operation *)
(* that raised left.                                                       *)
THEOREM CommitsAreOwn ==
    CbaSpec => CommitIsOwn
<1>1. CbaInv => (Doing("commit") /\ config' # config => session.pending \subseteq op.edits)
    BY DEF CbaInv, Transacts
<1>2. QED BY <1>1, CbaInvHolds, PTL DEF CommitIsOwn, CbaSpec

(* A wait for an action (backups, licences, certificates, health checks)   *)
(* ends well only on the report of the action its operation has started,   *)
(* unless another client's action replaced the report; for the operations  *)
(* that may overlook a refusal, as long as their request was accepted.     *)
THEOREM ReportsAreOwn ==
    CbaSpec => OwnReport
<1>1. ASSUME CbaInv, [CbaNext]_cbaVars
      PROVE  [(Doing("poll") /\ outcome' # "failed" /\ op'.prog # op.prog /\ ~foreign
                 /\ (op.name \in Unlooked => ~refused))
              => report.own /\ report.state = "SUCCESS"]_cbaVars
    BY <1>1, OwnReportStep
<1>2. QED BY <1>1, CbaInvHolds, PTL DEF OwnReport, CbaSpec
=============================================================================
