SPECIFICATION Spec
CONSTANTS
  SessionIds = {s1, s2}
  Tasks = {t1, t2}
  Passwords = {"p1", "p2"}
  BadList = {"p2"}
  Codes = {"c1", "c2"}
  Updates = {u1}
  Accounts <- MCAccounts
  Delays <- MCDelays
  OneDay = 4
  TotpStep = 3
  TotpLimit = 2
  Timeout = 1
  Lag = 1
  MaxTime = 5
  MaxUuid = 2
  MaxQueue = 1
INVARIANTS FailuresAreBounded FactorsInOrder SpentCodesAreRemoved
PROPERTIES FailuresAreSpaced VerdictIsFinal UpgradesKeepThePassword
SYMMETRY Symmetry
CONSTRAINT Followed
