---------------------------- MODULE MCUnixCache -----------------------------
(***************************************************************************)
(* One name that passes from one account to another, and one group that    *)
(* the first account joins and leaves.                                     *)
(***************************************************************************)
EXTENDS UnixCache, TLC

Symmetry == Permutations(Tasks)

CONSTANTS u1, u2, g1

MCAccounts ==
  { [uuid |-> u1, groups |-> {g1}, pw |-> "p1"],
    [uuid |-> u1, groups |-> {}, pw |-> "p1"],
    [uuid |-> u2, groups |-> {}, pw |-> "p2"] }
=============================================================================
