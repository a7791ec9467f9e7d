SPECIFICATION Spec
CONSTANTS
  Uuids = {a}
  Mods = {}
  MaxTs = 7
  MaxId = 2
  MaxOps = 2
  RecycleAge = 1
  ChangelogAge = 1
INVARIANTS
  RuvComplete
  IdsConsistent
  NeverOrphaned
PROPERTIES
  TombstoneFinal
  OnlyTombstonesLeave
  RecycleBinHolds
