SPECIFICATION Spec
CONSTANTS
  Tasks = {t1, t2}
  Names = {n1}
  Groups = {g1}
  Uuids = {u1, u2}
  u1 = u1
  u2 = u2
  g1 = g1
  Accounts <- MCAccounts
INVARIANTS OneRowPerName CachedPasswordWasVerified MembersComeFromTokens SomeRequestGoesOn
SYMMETRY Symmetry
