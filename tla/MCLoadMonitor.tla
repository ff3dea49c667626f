--------------------------- MODULE MCLoadMonitor ---------------------------
(* Two timed slots, then slots of the capacity handler, the last kept. *)
EXTENDS LoadMonitor

MCSlots == <<3, 2>>
MCNewSlots == <<-1>>
=============================================================================
