SPECIFICATION FairSpec
CONSTANTS
  Policy = {"p", "q"}
  Fatal = Fatal
  Losable <- RepositoryName
  MaxDisruptions = 1
  Name <- RepositoryName
  Composite <- RepositoryComposite
  Start <- MCPrefixedStart
  Manifest <- RepositoryManifest
  Status <- RepositoryStatus
  NewStatus <- RepositoryNewStatus
  Generate <- RepositoryGenerate
  Sequence <- RepositorySequence
  IsReady <- RepositoryIsReady
  Edits <- RepositoryEdits
  Reports <- RepositoryReports
  Degrades <- RepositoryDegrades
  Removable <- RepositoryRemovable
PROPERTY PolicyOfTheRules
