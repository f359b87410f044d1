---------------------------- MODULE MCShareRules ----------------------------
(* Instances of ShareRules for TLC: two documents a condition can tell apart. *)
EXTENDS ShareRules, TLC
CONSTANTS d1, d2, u1, u2, p1, p2

MCRecords1 == {1}
MCRecords2 == {1, 2}
MCDocs     == {d1, d2}
MCConds    == {{d1}, {d2}}

Body(c, u, a, x) == [cond |-> c, principal |-> u, access |-> a, active |-> x]

\* PATCH bodies: an empty one, and those of the console: a new condition for another
\* principal, on, off.
MCPatches ==
    {Body(Keep, Keep, Keep, Keep), Body({d2}, u2, Keep, Keep),
     Body(Keep, Keep, Keep, TRUE), Body(Keep, Keep, Keep, FALSE)}
=============================================================================
