---------------------------- MODULE MCSessions ----------------------------
(* The sessions of an account, for TLC.  Nothing orders OAuth2 session ids. *)
EXTENDS Sessions, TLC

Symmetry == Permutations(Oids)
=============================================================================
