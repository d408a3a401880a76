SPECIFICATION Spec
CONSTANTS
  Cred = {c1, c2}
  NoCred = NoCred
  ClientKey = {k1}
  Setting = {s1, s2}
  NoSetting = NoSetting
  Legacy = c1
  Handler = {h1, h2}
  NoOne = NoOne
  MaxEdits = 3
  MaxBoots = 1
PROPERTIES DeletedStaysDeleted
CHECK_DEADLOCK FALSE
