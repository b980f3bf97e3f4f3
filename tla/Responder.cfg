CONSTANTS
  Host <- TwoHosts
  ProbeCount = 3
  InitialAnnounce = 3
  Ttl = 24
  Never = 99
  MaxStarts = 2
  MaxEvents = 1
  MaxLabel = 3
  MaxQuiet = 36
SPECIFICATION Spec
INVARIANTS TypeOK NamesDiffer BrowserKnows SettlesInTime
CHECK_DEADLOCK FALSE
