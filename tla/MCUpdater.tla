---------------------------- MODULE MCUpdater ----------------------------
(* Small instances of Updater.                                               *)
EXTENDS Updater

V(a, b, c, d) == [major |-> a, minor |-> b, mminor |-> c, built |-> d]

\* A version, its successor, a later build of an older branch, and a version
\* with a number that does not fit into three bits.
Delivered == V(1, 1, 5, 2)
Branches == {V(1, 2, 0, 4), V(1, 1, 4, 5), V(1, 1, 9, 6)}
==========================================================================
