---------------------------- MODULE MCCallPolicy ----------------------------
(***************************************************************************)
(* A small instance of CallPolicy for TLC.                                 *)
(***************************************************************************)
EXTENDS CallPolicy

\* Immediately, then after one tick, then after two.
Schedule == << 0, 1, 2 >>

\* Hours that wrap midnight, hours that do not, an empty span, and none.
Policies ==
  { [enforced |-> TRUE, start |-> 2, end |-> 1],
    [enforced |-> TRUE, start |-> 0, end |-> 2],
    [enforced |-> TRUE, start |-> 1, end |-> 1],
    [enforced |-> FALSE, start |-> 2, end |-> 1] }
=============================================================================
