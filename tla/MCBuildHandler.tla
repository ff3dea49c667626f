--------------------------- MODULE MCBuildHandler ---------------------------
(***************************************************************************)
(* Instances of the build handler for TLC: builds b1 and b2 of project 1   *)
(* and b3 of project 2, all of release r1.                                 *)
(***************************************************************************)
EXTENDS PendingList

CONSTANTS b1, b2, b3, r1, v1, res

MCBuilds == {b1, b2, b3}
MCProjectOf == (b1 :> 1) @@ (b2 :> 1) @@ (b3 :> 2)
MCReleaseOf == (b1 :> r1) @@ (b2 :> r1) @@ (b3 :> r1)
MCMatches == "project1" :> {b1, b2}

MCInfo == {[EmptyInfo EXCEPT !.packages = v1]}
=============================================================================
