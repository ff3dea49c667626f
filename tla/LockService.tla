---------------------------- MODULE LockService ----------------------------
(***************************************************************************)
(* What a queueing lock promises its users: whoever finds somebody inside  *)
(* may have to stand in line, and whoever leaves lets in the first of the  *)
(* line in the same step, so that the line moves as often as somebody      *)
(* leaves. Nothing is said of how many are inside: a thread that finds the *)
(* lock free walks in past the line.                                       *)
(***************************************************************************)
EXTENDS Sequences

CONSTANT Threads

VARIABLES
    line,       \* the threads in line, first come first
    inside      \* the threads that were let in and have not left

svars == <<line, inside>>

InLine == {line[i] : i \in DOMAIN line}

Init == line = <<>> /\ inside = {}

Walk(t) ==
    /\ t \notin inside \cup InLine
    /\ inside' = inside \cup {t}
    /\ UNCHANGED line

Queue(t) ==
    /\ t \notin inside \cup InLine
    /\ inside # {}
    /\ line' = Append(line, t)
    /\ UNCHANGED inside

Leave(t) ==
    /\ t \in inside
    /\ line' = IF line = <<>> THEN line ELSE Tail(line)
    /\ inside' = (inside \ {t}) \cup IF line = <<>> THEN {} ELSE {Head(line)}

Next == \E t \in Threads : Walk(t) \/ Queue(t) \/ Leave(t)

SafeSpec == Init /\ [][Next]_svars

Spec == SafeSpec /\ \A t \in Threads : WF_svars(Leave(t))
=============================================================================
