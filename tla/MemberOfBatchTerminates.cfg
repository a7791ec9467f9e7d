SPECIFICATION FairSpec
CONSTANTS
  a = a
  Groups = {a, b, c}
  Others = {}
  ModLists <- NoMods
  BatchLists <- ShortSyncMods
PROPERTIES
  Terminates
