SPECIFICATION Spec
CONSTANTS
  u1 = u1
  u2 = u2
  Uuids = {u1, u2}
  Names = {1, 2}
  Tags = {1, 2}
  BaseMeta <- MCBase
  SchemaChanges <- MCChanges
  MaxId = 2
  AttrOrder <- MCOrder
  Queries <- MCQueries
  Metas <- MCMetas
  Slopes <- MCSlopes
  Thresholds = {0, 1}
  Limits <- MCLimits
INVARIANTS
  TablesExact
  NameMapsExact
  UniqueQueryExact
  InclusionAnswer
  SearchExact
SYMMETRY Symmetry
