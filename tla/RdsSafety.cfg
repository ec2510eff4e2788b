SPECIFICATION Spec
CONSTANTS
  Support <- MCSupport
  Version = {"v1", "v2", "m"}
  Major = {"m"}
  Snapshot = {"s0", "s1"}
  Arn = {"a1", "a2"}
  Fatal = Fatal
  Losable <- RdsName
  MaxDisruptions = 2
  Name <- RdsName
  Composite <- RdsComposite
  Start <- MCStart
  Manifest <- RdsManifest
  Status <- RdsStatus
  NewStatus <- RdsNewStatus
  Generate <- RdsGenerate
  Sequence <- RdsSequence
  IsReady <- RdsIsReady
  Edits <- RdsEdits
  Reports <- RdsReports
  Degrades <- RdsDegrades
  Removable <- RdsRemovable
INVARIANT GroupInUseIsKept
PROPERTIES RebuiltFromScratch SecretLeavesWithSnapshot
