SPECIFICATION Spec
CONSTANTS
  Uuids = {a, b}
  Mods <- AllMods
  MaxTs = 4
  MaxId = 2
  MaxOps = 1
  RecycleAge = 1
  ChangelogAge = 1
SYMMETRY Symmetry
INVARIANTS
  ReplayMatches
  DirectMemberOfExact
PROPERTY
  ReferencesFollow
