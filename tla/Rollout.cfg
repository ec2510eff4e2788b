SPECIFICATION FairSpec
CONSTANTS
  Item = {"a"}
  MaxList = 1
  Fatal = Fatal
  Losable <- SqlName
  MaxDisruptions = 1
  Name <- SqlName
  Composite <- SqlComposite
  Start <- MCStart
  Manifest <- Time
  Status <- SqlStatus
  NewStatus <- SqlNewStatus
  Generate <- SqlGenerate
  Sequence <- SqlSequence
  IsReady <- SqlIsReady
  Edits <- SqlEdits
  Reports <- SqlReports
  Degrades <- SqlDegrades
  Removable <- SqlRemovable
INVARIANTS TypeOK PreviousStepWasReady
PROPERTIES GeneratedIsKept EventuallySettled RotatedOnce RotatedAfterRestore
