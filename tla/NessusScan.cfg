SPECIFICATION FairSpec
CONSTANTS
  j1 = j1
  j2 = j2
  Jobs <- MCJobs
  Plugins <- MCPlugins
  OwnFolder <- MCOwnFolder
  Workers = 2
INVARIANTS
  FailureKeepsScan
  LicenseIsReturned
  SuccessIsWhole
PROPERTY CancelledJobEnds
