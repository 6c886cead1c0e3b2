SPECIFICATION FairSpec
CONSTANTS
  Servers = {s1}
  NoServer = NoServer
  Grants <- AllGrants
  LeaseMod = 32
  FirstRetry = 1
  LastRetry = 2
  Lifetime = 1
PROPERTIES LeaseIsObtained
