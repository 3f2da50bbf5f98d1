SPECIFICATION RunSpec
CONSTANTS
  Call = {c1, c2}
  t1 = t1
  t1x = t1x
  t2 = t2
  d1 = d1
  d2 = d2
  plain = plain
  padded = padded
  other = other
  empty = empty
  Text <- MCText
  Address <- MCAddress
  Canonical <- MCCanonical
  Name <- MCName
  Normal <- MCNormal
  Invalid = Invalid
  NoEntry = NoEntry
  NoCall = NoCall
  NoMarker = NoMarker
  MaxEdits = 1
  MaxFailures = 1
  Absent = Absent
  NotText = NotText
  Error = Error
SYMMETRY Symmetry
INVARIANTS
  RemovedStaysRemoved
  LookupsFaithful
  ContactsAgree
PROPERTIES
  MigrationComplete
