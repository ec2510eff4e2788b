SPECIFICATION FairSpec
CONSTANTS
  Support <- MCSupport
  Version = {"v1", "v2", "m"}
  Major = {"m"}
  Snapshot = {"s0", "s1"}
  Arn = {"a1", "a2"}
  Fatal = Fatal
  Losable <- MCLosable
  MaxDisruptions = 2
  Name <- RdsName
  Composite <- RdsComposite
  Start <- MCSettlingStart
  Manifest <- RdsManifest
  Status <- RdsStatus
  NewStatus <- RdsNewStatus
  Generate <- RdsGenerate
  Sequence <- RdsSequence
  IsReady <- RdsIsReady
  Edits <- MCEdits
  Reports <- RdsReports
  Degrades <- RdsDegrades
  Removable <- RdsRemovable
PROPERTIES EventuallySettled ParameterGroupInUseStays
