SPECIFICATION Spec
CONSTANTS
  Servers = {s1, s2}
  NoServer = NoServer
  Grants <- ShortGrants
  LeaseMod = 32
  FirstRetry = 1
  LastRetry = 2
  Lifetime = 1
SYMMETRY Symmetry
INVARIANTS TypeOK AddressIsGranted RequestNamesOwner
PROPERTIES LeaseStagesAdvance
