CONSTANTS
  Configs <- WithDnssd
  MaxFailures = 0
SPECIFICATION Spec
INVARIANTS CoreEnteredByOne
CHECK_DEADLOCK FALSE
