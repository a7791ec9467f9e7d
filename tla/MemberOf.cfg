SPECIFICATION FairSpec
CONSTANTS
  a = a
  Groups = {a, b, c}
  Others = {p}
  ModLists <- AddMods
  BatchLists <- PurgeMods
INVARIANTS
  NoMembershipLost
  AcyclicExact
  WorklistCovers
PROPERTIES
  Terminates
