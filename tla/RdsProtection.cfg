SPECIFICATION Spec
CONSTANTS
  Support <- MCSupport
  Version = {"v1", "v2"}
  Major = {}
  Snapshot = {"s0", "s1"}
  Arn = {"a1", "a2"}
  Fatal = Fatal
  Losable <- MCLosable
  MaxDisruptions = 1
  Name <- RdsName
  Composite <- RdsComposite
  Start <- MCProtectedStart
  Manifest <- RdsManifest
  Status <- RdsStatus
  NewStatus <- RdsNewStatus
  Generate <- RdsGenerate
  Sequence <- RdsSequence
  IsReady <- RdsIsReady
  Edits <- RdsEdits
  Reports <- RdsReports
  Degrades <- RdsDegrades
  Removable <- RdsRemovable
INVARIANT ProtectedIsNotRebuilt
