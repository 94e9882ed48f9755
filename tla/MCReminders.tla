---------------------------- MODULE MCReminders ----------------------------
(* Model values and small bounds for Reminders. *)
EXTENDS Reminders, TLC

CONSTANTS i1, i2, p1, p2, f1, f2

FiberSymmetry == Permutations(Fiber)

AheadSmall == {1, -2}   \* soon, and already overdue
AheadNear  == {1}
=============================================================================
