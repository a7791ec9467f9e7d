CONSTANTS
    e1 = e1
    e2 = e2
    i1 = i1
    EntryKeys = {e1, e2}
    IdlKeys = {i1}
    NameKeys = {n1}
    Readers = {r1}
    Asked = {e2, i1}
    MaxTxn = 2
    MaxOps = 2
    Mirror <- MCMirror
SPECIFICATION Spec
INVARIANTS CacheCoherent CellsMirrorEntries
PROPERTIES LookupsAreCommittedReads CommitKeepsAll
