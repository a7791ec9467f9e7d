-------------------------- MODULE MCEntryLifecycle --------------------------
(* Entry lifecycle with small sets of entries, for TLC. *)
EXTENDS EntryLifecycle, TLC

Symmetry == Permutations(Uuids)

AllMods == MemberMods

=============================================================================
