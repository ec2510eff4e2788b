SPECIFICATION Spec
CONSTANTS
  Item = {"a"}
  MaxList = 1
  Fatal = Fatal
  Losable <- SqlName
  MaxDisruptions = 1
  Name <- SqlName
  Composite <- SqlComposite
  Start <- MCDatabase
  Manifest <- Time
  Status <- SqlStatus
  NewStatus <- SqlNewStatus
  Generate <- SqlGenerate
  Sequence <- SqlSequence
  IsReady <- SqlIsReady
  Edits <- SqlEdits
  Reports <- SqlReports
  Degrades <- SqlDegrades
  Removable <- SqlRemovable
INVARIANT EarlierStepsWereReady
