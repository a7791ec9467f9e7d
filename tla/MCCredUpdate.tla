---------------------------- MODULE MCCredUpdate ----------------------------
(* An instance of CredUpdate.  Sessions are interchangeable, and so are      *)
(* intents: nothing orders them.                                             *)
EXTENDS CredUpdate, TLC

Symmetry == Permutations(Sids) \cup Permutations(Intents)

Untouched(x) == x.primary = NoCred /\ x.passkeys = {} /\ x.mfareg = "None"

\* Sessions are edited while no intent is out and no time passes; intents run
\* their course, and time passes, as long as nothing is edited.
Edited == clock = 0 /\ \A i \in Intents : intents[i] = Unissued
Unedited ==
  /\ primary = NoCred /\ passkeys = {}
  /\ \A c \in Clients : ~txn[c].open
  /\ \A s \in Sids : object[s] # NoSession => Untouched(object[s])
Explored == Edited \/ Unedited
=============================================================================
