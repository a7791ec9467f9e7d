SPECIFICATION Spec
CONSTANTS
  Intents = {i1, i2}
  Sids = {s1, s2}
  Passkeys = {k1}
  Codes = {b1}
  Passwords = {p1}
  Clients = {c1}
  TTL = 1
  IntentTTL = 2
  MaxLag = 2
  MaxTime = 5
  NoIntent = NoIntent
  NoCred = NoCred
  NoSession = NoSession
SYMMETRY Symmetry
CONSTRAINT Explored
INVARIANTS OnceUse OneSessionPerIntent NeverSpentInVain CredentialValid
