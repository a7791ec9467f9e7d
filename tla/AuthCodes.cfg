SPECIFICATION Spec
CONSTANTS
  SessionIds = {s1}
  Tasks = {}
  Passwords = {"p1"}
  BadList = {}
  Codes = {"c1"}
  Updates = {u1}
  Accounts <- CodeAccounts
  Delays <- MCDelays
  OneDay = 4
  TotpStep = 3
  TotpLimit = 2
  Timeout = 1
  Lag = 0
  MaxTime = 1
  MaxUuid = 1
  MaxQueue = 1
PROPERTIES RemovedCodesStayRemoved
