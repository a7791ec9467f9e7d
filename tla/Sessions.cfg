SPECIFICATION Spec
CONSTANTS
  Sids = {s1}
  Oids = {o1, o2}
  Rs = {r1}
  Grace = 2
  UatLife = 5
  CodeTtl = 1
  ConsentTtl = 1
  MaxTime = 6
  MaxQueue = 2
SYMMETRY Symmetry
INVARIANTS DestroyIsFinal DestroyCascades TokensEndWithParent
PROPERTY LiveRecordsStay
