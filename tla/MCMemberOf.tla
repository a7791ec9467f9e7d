------------------------------ MODULE MCMemberOf ------------------------------
(***************************************************************************)
(* The memberof plugin on three groups and an entry that is none.  Groups  *)
(* are interchangeable and create makes every shape of nesting, so one     *)
(* group, a, stands for whichever a modification adds.                     *)
(***************************************************************************)
EXTENDS MemberOf, Naturals, TLC

CONSTANT a

AddMods == {[keep |-> Entries, add |-> {a}]}
PurgeMods == {[keep |-> {}, add |-> {}]}
NoMods == {}

(* What scim_entry_to_mod makes of an entry: purge, then the new values. *)
ShortSyncMods == {[keep |-> {}, add |-> s] : s \in {s \in SUBSET Entries : Cardinality(s) <= 1}}

=============================================================================
