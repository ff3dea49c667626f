--------------------------- MODULE NodeConnections ---------------------------
(***************************************************************************)
(* hss_utils.node.Node and the connections below it. A connection is a      *)
(* Session (hss_utils.connection.session) on a Channel: an ssh process, or  *)
(* a second ssh typed into one (SSHChannelExtension). The remote shell      *)
(* works on its own: it prints a prompt for every line it has executed, and *)
(* the session takes the next prompt of the pipe for the end of the command *)
(* it waits for.                                                            *)
(***************************************************************************)
EXTENDS Integers, Sequences

CONSTANTS
    Main,       \* the identity of the connection create_connection makes
    Ext,        \* the one extend_connection makes, a child of Main
    Bg,         \* the one run_command_async clones from Main
    None,
    MaxCmds,    \* bound: commands sent
    MaxFaults   \* bound: expired timeouts, refused logins and lost connections

ASSUME IdsAssumption == Main # Ext /\ Main # Bg /\ Ext # Bg /\ None \notin {Main, Ext, Bg}

Ids == {Main, Ext, Bg}

VARIABLES
    kind,       \* the session class of each identity
    conn,       \* __connections: the node's entry, its session and its channel; half is
                \* history: a session of EprtSetup is ready, the set-up not yet done
    busy,       \* remote side: commands sent whose prompt is still to come
    pipe,       \* prompts printed and not read yet, each with its command
    client,     \* the call under way on the node
    sent,       \* number of commands sent so far
    async,      \* the asynchronous command under way on Bg, 0: none
    faults,
    clean,      \* history: since the ssh was spawned one open, and no expired wait
    last,       \* history: the last command answered, with the prompt it got
    released    \* Node.release has been called

vars == <<kind, conn, busy, pipe, client, sent, async, faults, clean, last, released>>

-----------------------------------------------------------------------------
(* The session classes: what a second open does on a channel whose shell    *)
(* has the session's prompt already, whether a failed open is silent, and   *)
(* what open still waits for after its first prompt.                        *)

StandardLinux == [again |-> "extra", silent |-> FALSE, second |-> "none"]
HardenedLinux == [again |-> "stuck", silent |-> FALSE, second |-> "none"]
EprtSetup     == [again |-> "extra", silent |-> FALSE, second |-> "eprtsetup"]
NetconfCBA    == [again |-> "stuck", silent |-> FALSE, second |-> "none"]
SignManCLI    == [again |-> "stuck", silent |-> TRUE, second |-> "none"]
CBACliss      == [again |-> "stuck", silent |-> FALSE, second |-> "none"]
CBASignmcli   == [again |-> "stuck", silent |-> FALSE, second |-> "unlooked"]
CBANBICliss   == [again |-> "single", silent |-> FALSE, second |-> "none"]
TelorbCLI     == [again |-> "stuck", silent |-> FALSE, second |-> "none"]
JambalaCLI    == [again |-> "extra", silent |-> FALSE, second |-> "none"]

LinuxSessions == {StandardLinux, HardenedLinux, EprtSetup}
SessionTypes == LinuxSessions \cup {NetconfCBA, SignManCLI, CBACliss, CBASignmcli,
                                    CBANBICliss, TelorbCLI, JambalaCLI}

\* Prompts printed for the lines of open, login prompts being number 0.
LoginPrompts(k, prompted) ==
    IF ~prompted THEN <<0>>
    ELSE CASE k.again = "extra" -> <<0, 0>> [] k.again = "single" -> <<0>> [] OTHER -> <<>>

-----------------------------------------------------------------------------
Absent == [known |-> FALSE, opened |-> FALSE, ready |-> FALSE, autoclose |-> FALSE,
           channel |-> FALSE, extended |-> FALSE, alive |-> FALSE, prompted |-> FALSE,
           half |-> FALSE]

Idle == [pc |-> "idle", id |-> None, op |-> "none", cmd |-> 0]

Init ==
    /\ \E k \in LinuxSessions, e \in SessionTypes :
          kind = [c \in Ids |-> IF c = Ext THEN e ELSE k]
    /\ conn = [c \in Ids |-> Absent]
    /\ busy = [c \in Ids |-> <<>>] /\ pipe = [c \in Ids |-> <<>>]
    /\ client = Idle /\ sent = 0 /\ async = 0 /\ faults = 0
    /\ clean = [c \in Ids |-> TRUE]
    /\ last = [cmd |-> 0, prompt |-> 0, clean |-> TRUE]
    /\ released = FALSE

Fault == faults < MaxFaults /\ faults' = faults + 1

\* What Channel.opened says: the extension on top of the ssh, or the ssh itself.
ChannelOpened(c) == conn[c].channel /\ (c = Ext => conn[c].extended)

Ready(c) == client.pc = "idle" /\ ~released

Set(c, r) == conn' = [conn EXCEPT ![c] = r]
SetPipe(c, b, p) == busy' = [busy EXCEPT ![c] = b] /\ pipe' = [pipe EXCEPT ![c] = p]

\* A freshly spawned ssh: nothing in its pipe, nothing missed.
Spawned(r) == [r EXCEPT !.channel = TRUE, !.alive = TRUE, !.prompted = FALSE]

\* channel.close, of the ssh process below.
Closed(r) == [r EXCEPT !.channel = FALSE, !.extended = FALSE, !.alive = FALSE,
                       !.prompted = FALSE]

(* Making connections *)

Create ==
    /\ Ready(Main) /\ ~conn[Main].known
    /\ Set(Main, [Absent EXCEPT !.known = TRUE])
    /\ SetPipe(Main, <<>>, <<>>)
    /\ UNCHANGED <<kind, client, sent, async, faults, clean, last, released>>

\* The extension rides on a clone of the parent's channel, which clone() opens.
\* (get_channel opens the parent first when it is closed: that is a call of Use.)
Extend ==
    /\ Ready(Ext) /\ conn[Main].opened /\ ~conn[Ext].opened
    /\ \/ /\ Set(Ext, IF ChannelOpened(Main) THEN Spawned([Absent EXCEPT !.known = TRUE])
                      ELSE [Absent EXCEPT !.known = TRUE])
          /\ UNCHANGED faults
       \/ Fault /\ Set(Ext, Absent)                 \* the clone cannot be opened
    /\ SetPipe(Ext, <<>>, <<>>)
    /\ clean' = [clean EXCEPT ![Ext] = TRUE]
    /\ UNCHANGED <<kind, client, sent, async, last, released>>

(* Opening a session *)

\* The lines of open, on a channel that is open: the prompts they will cause.
SendLogin(c, r, op, b, p, ok) ==
    /\ Set(c, [r EXCEPT !.prompted = TRUE])
    /\ SetPipe(c, IF r.alive THEN b \o LoginPrompts(kind[c], r.prompted) ELSE b, p)
    /\ clean' = [clean EXCEPT ![c] = ok /\ ~r.prompted]
    /\ client' = [pc |-> "login", id |-> c, op |-> op, cmd |-> 0]

\* A line written to a dead ssh may raise as well.
WriteRaises(c) == ~conn[c].alive /\ client' = Idle /\ UNCHANGED <<conn, busy, pipe, clean>>

StartOpen(c, op) ==
    IF ChannelOpened(c)
    THEN /\ \/ SendLogin(c, conn[c], op, busy[c], pipe[c], clean[c])
            \/ WriteRaises(c)
         /\ UNCHANGED faults
    ELSE \/ /\ SendLogin(c, [Spawned(conn[c]) EXCEPT !.autoclose = TRUE, !.extended = (c = Ext)],
                         op, <<>>, <<>>, TRUE)
            /\ UNCHANGED faults
         \/ /\ Fault                                \* refused, or no answer in time
            /\ Set(c, Closed(conn[c])) /\ SetPipe(c, <<>>, <<>>)
            /\ client' = Idle /\ UNCHANGED clean

\* sendline and sendoptionallines: only a ready session sends.
Send(c, op) ==
    IF conn[c].ready
    THEN /\ sent' = sent + 1
         /\ SetPipe(c, IF conn[c].alive THEN Append(busy[c], sent + 1) ELSE busy[c], pipe[c])
         /\ IF op = "async" THEN client' = Idle /\ async' = sent + 1
            ELSE /\ client' = [pc |-> "answer", id |-> c, op |-> op, cmd |-> sent + 1]
                 /\ UNCHANGED async
         /\ UNCHANGED <<conn, clean>>
    ELSE client' = Idle /\ UNCHANGED <<conn, busy, pipe, clean, sent, async>>

\* run_command, and run_command_async on a known identity (its callers start one
\* command at a time).
Use(c, op) ==
    /\ Ready(c) /\ conn[c].known /\ sent < MaxCmds
    /\ op = "async" <=> c = Bg
    /\ c = Bg => async = 0
    /\ \/ conn[c].opened /\ Send(c, op) /\ UNCHANGED faults
       \/ conn[c].opened /\ conn[c].ready /\ WriteRaises(c) /\ UNCHANGED <<sent, async, faults>>
       \/ ~conn[c].opened /\ StartOpen(c, op) /\ UNCHANGED <<sent, async>>
    /\ UNCHANGED <<kind, last, released>>

\* run_command_async on an identity it does not know: the session of Main is
\* cloned, and opened by clone() when that one is ready.
CloneAsync ==
    /\ Ready(Bg) /\ ~conn[Bg].known /\ conn[Main].known /\ sent < MaxCmds
    /\ LET r == [Absent EXCEPT !.known = TRUE] IN
       IF ChannelOpened(Main) /\ conn[Main].ready
       THEN \/ SendLogin(Bg, Spawned([r EXCEPT !.known = FALSE]), "clone", <<>>, <<>>, TRUE)
               /\ UNCHANGED faults
            \/ Fault /\ client' = Idle /\ UNCHANGED <<conn, busy, pipe, clean>>
       ELSE /\ Set(Bg, r) /\ SetPipe(Bg, <<>>, <<>>)
            /\ clean' = [clean EXCEPT ![Bg] = TRUE] /\ UNCHANGED <<client, faults>>
    /\ UNCHANGED <<kind, sent, async, last, released>>

\* mutant: the prompt is recognised and left in the pipe
MutantTakePrompt(c) == SetPipe(c, busy[c], pipe[c])

\* The prompt open waits for has been read.
TakePrompt(c) == SetPipe(c, busy[c], Tail(pipe[c]))

\* open has succeeded: a clone is then known to the node.
Opened(c) ==
    IF client.op = "clone"
    THEN Set(c, [conn[c] EXCEPT !.ready = TRUE, !.half = FALSE, !.known = TRUE]) /\ client' = Idle
    ELSE /\ Set(c, [conn[c] EXCEPT !.ready = TRUE, !.half = FALSE, !.opened = TRUE])
         /\ client' = [client EXCEPT !.pc = "opened"]

\* EprtSetup.open has now opened the Linux session below it, which is ready, and
\* types eprtsetup; CBASignmcli.open sends an empty line.
LoginSynced ==
    LET c == client.id IN
    /\ client.pc = "login" /\ pipe[c] # <<>>
    /\ \/ kind[c].second = "none" /\ TakePrompt(c) /\ Opened(c)
       \/ /\ kind[c].second = "eprtsetup" /\ TakePrompt(c)
          /\ Set(c, [conn[c] EXCEPT !.ready = TRUE, !.half = TRUE])
          /\ client' = [client EXCEPT !.pc = "setup"]
       \/ /\ kind[c].second = "unlooked"
          /\ SetPipe(c, IF conn[c].alive THEN Append(busy[c], 0) ELSE busy[c], Tail(pipe[c]))
          /\ client' = [client EXCEPT !.pc = "second"] /\ UNCHANGED conn
    /\ UNCHANGED <<kind, sent, async, faults, clean, last, released>>

\* EprtSetup.open: the text of eprtsetup has come, and whatever was printed before
\* it is passed over; the prompt is set in the shell eprtsetup starts.
EprtSetupRuns ==
    LET c == client.id IN
    /\ client.pc = "setup" /\ conn[c].alive
    /\ SetPipe(c, <<0>>, <<>>)
    /\ client' = [client EXCEPT !.pc = "second"]
    /\ UNCHANGED <<kind, conn, sent, async, faults, clean, last, released>>

SecondSynced ==
    LET c == client.id IN
    /\ client.pc = "second" /\ pipe[c] # <<>>
    /\ TakePrompt(c) /\ Opened(c)
    /\ UNCHANGED <<kind, sent, async, faults, clean, last, released>>

\* connection() hands the open session to the call that asked for it.
SendAfterOpen ==
    /\ client.pc = "opened"
    /\ Send(client.id, client.op)
    /\ UNCHANGED <<kind, faults, last, released>>

Missed(c) == clean' = [clean EXCEPT ![c] = @ /\ busy[c] = <<>>]

\* No prompt in time, or the end of file. SignManCLI.open, once the prompt for the
\* user has come, returns all the same.
LoginFails ==
    LET c == client.id IN
    /\ client.pc = "login" /\ pipe[c] = <<>>
    /\ IF conn[c].alive /\ busy[c] # <<>> THEN Fault ELSE UNCHANGED faults
    /\ Missed(c)
    /\ \/ /\ kind[c].silent /\ client.op # "clone"
          /\ Set(c, [conn[c] EXCEPT !.opened = TRUE]) /\ client' = [client EXCEPT !.pc = "opened"]
       \/ client' = Idle /\ UNCHANGED conn
    /\ UNCHANGED <<kind, busy, pipe, sent, async, last, released>>

\* CBASignmcli does not look at the result; EprtSetup raises, and leaves the session
\* below ready.
SecondFails ==
    LET c == client.id IN
    /\ \/ client.pc = "setup"
       \/ client.pc = "second" /\ pipe[c] = <<>>
    /\ IF conn[c].alive THEN Fault ELSE UNCHANGED faults
    /\ Missed(c)
    /\ IF kind[c].second = "unlooked" THEN Opened(c) ELSE client' = Idle /\ UNCHANGED conn
    /\ UNCHANGED <<kind, busy, pipe, sent, async, last, released>>

(* Waiting for an answer *)

Answer ==
    LET c == client.id IN
    /\ client.pc = "answer" /\ pipe[c] # <<>>
    /\ last' = [cmd |-> client.cmd, prompt |-> Head(pipe[c]), clean |-> clean[c]]
    /\ TakePrompt(c)
    /\ client' = Idle
    \* stop_command_async leaves the shell of an identity of its own
    /\ conn' = [conn EXCEPT ![c].alive = @ /\ client.op # "stop"]
    /\ UNCHANGED <<kind, sent, async, faults, clean, released>>

\* ConnectionFailedTimeout or ConnectionFailedEOF; a stop waits for ever.
AnswerFails ==
    LET c == client.id IN
    /\ client.pc = "answer" /\ pipe[c] = <<>>
    /\ \/ conn[c].alive /\ client.op # "stop" /\ Fault
       \/ ~conn[c].alive /\ UNCHANGED faults
    /\ Missed(c)
    /\ client' = Idle
    /\ UNCHANGED <<kind, conn, busy, pipe, sent, async, last, released>>

\* stop_command_async: Ctrl-C, then the prompt of the command it ends.
StopAsync ==
    /\ Ready(Bg) /\ conn[Bg].opened /\ conn[Bg].ready /\ async # 0
    /\ client' = [pc |-> "answer", id |-> Bg, op |-> "stop", cmd |-> async]
    /\ async' = 0
    /\ UNCHANGED <<kind, conn, busy, pipe, sent, faults, clean, last, released>>

(* Closing *)

\* Session.close of a ready session, once its exit line is written.
SessionClosed(r) ==
    LET ended == IF r.autoclose THEN Closed(r) ELSE [r EXCEPT !.alive = FALSE]
    IN  [ended EXCEPT !.autoclose = FALSE, !.ready = FALSE]

\* mutant: the entry is marked closed and its session left alone
MutantCloseResults(r) == {[r EXCEPT !.opened = FALSE]}

\* close_connection: a session that is not ready, and one whose exit line cannot be
\* written, keeps its channel; the entry counts as closed in any case.
CloseResults(r) ==
    IF ~r.known \/ ~r.opened THEN {r}
    ELSE {[s EXCEPT !.opened = FALSE] :
            s \in (IF ~r.ready THEN {r} ELSE {SessionClosed(r)} \cup (IF r.alive THEN {} ELSE {r}))}

Children(c) == IF c = Main THEN {Ext} ELSE {}

CloseOf(ids) ==
    /\ \E f \in [Ids -> UNION {CloseResults(conn[c]) : c \in Ids}] :
          /\ \A c \in Ids : IF c \in ids THEN f[c] \in CloseResults(conn[c]) ELSE f[c] = conn[c]
          /\ conn' = f
    /\ busy' = [c \in Ids |-> IF conn'[c].alive THEN busy[c] ELSE <<>>]
    /\ pipe' = [c \in Ids |-> IF conn'[c].channel THEN pipe[c] ELSE <<>>]

Close(c) ==
    /\ Ready(c) /\ conn[c].known /\ conn[c].opened
    /\ CloseOf({c} \cup Children(c))
    /\ async' = IF c = Bg THEN 0 ELSE async
    /\ UNCHANGED <<kind, client, sent, faults, clean, last, released>>

Release ==
    /\ Ready(Main) /\ conn[Main].known
    /\ CloseOf(Ids)
    /\ released' = TRUE
    /\ UNCHANGED <<kind, client, sent, async, faults, clean, last>>

(* The remote side (external) *)

Complete(c) ==
    /\ busy[c] # <<>> /\ conn[c].alive
    /\ SetPipe(c, Tail(busy[c]), Append(pipe[c], Head(busy[c])))
    /\ UNCHANGED <<kind, conn, client, sent, async, faults, clean, last, released>>

Lost(c) ==
    /\ conn[c].alive /\ ~released /\ Fault
    /\ conn' = [conn EXCEPT ![c].alive = FALSE] /\ busy' = [busy EXCEPT ![c] = <<>>]
    /\ UNCHANGED <<kind, pipe, client, sent, async, clean, last, released>>

Client ==
    \/ LoginSynced \/ EprtSetupRuns \/ SecondSynced \/ LoginFails \/ SecondFails
    \/ SendAfterOpen \/ Answer \/ AnswerFails

Next ==
    \/ Create \/ Extend \/ CloneAsync \/ StopAsync \/ Release \/ Client
    \/ \E c \in Ids : \/ \E op \in {"command", "async"} : Use(c, op)
                      \/ Close(c) \/ Complete(c) \/ Lost(c)

Spec == Init /\ [][Next]_vars
-----------------------------------------------------------------------------
\* A command gets its own answer: as long as the session was opened once on its ssh
\* process and no wait on it expired, the prompt run_command takes for the end of a
\* command is the prompt of that command, whatever was opened, closed, cloned and
\* reopened before.
AnswersInStep == last.clean => last.cmd = last.prompt

\* The node's bookkeeping after close_connection and release: no session that
\* create_connection or extend_connection made is ready on a live ssh while the
\* node takes it for closed, so release leaves none of them running. Except for a
\* session of EprtSetup whose set-up failed: the session below it was ready by then,
\* and release passes it over.
NoSessionForgotten ==
    client.pc = "idle" =>
        \A c \in {Main, Ext} : conn[c].known /\ ~conn[c].opened /\ ~conn[c].half =>
                               ~(conn[c].ready /\ conn[c].alive)
=============================================================================
