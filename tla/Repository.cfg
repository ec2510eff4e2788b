SPECIFICATION FairSpec
CONSTANTS
  Policy = {"p", "q", "r"}
  Fatal = Fatal
  Losable <- RepositoryName
  MaxDisruptions = 3
  Name <- RepositoryName
  Composite <- RepositoryComposite
  Start <- MCStart
  Manifest <- RepositoryManifest
  Status <- RepositoryStatus
  NewStatus <- RepositoryNewStatus
  Generate <- RepositoryGenerate
  Sequence <- RepositorySequence
  IsReady <- RepositoryIsReady
  Edits <- RepositoryEdits
  Reports <- RepositoryReports
  Degrades <- RepositoryDegrades
  Removable <- RepositoryRemovable
INVARIANT OnePolicy
PROPERTY PolicyOfTheRules
