SPECIFICATION FairSpec
CONSTANTS
  None = None
  Password = {}
  Value <- MCValue
  Ns = {n1}
  Apps = apps
  Other = {o1}
  Pool = {p1}
  Types = {"t1", "t2"}
  Template = {"x1", "x2"}
  Fatal = Fatal
  Losable <- MCLosable
  MaxDisruptions = 2
  Name <- MCName
  Composite <- MCComposite
  Start <- MCStart
  Manifest <- ServiceManifest
  Status <- ServiceStatus
  NewStatus <- ServiceNewStatus
  Generate <- MCGenerate
  Sequence <- ZoneSequence
  IsReady <- MCIsReady
  Edits <- MCEdits
  Reports <- ZoneReports
  Degrades <- ServiceDegrades
  Removable <- ZoneRemovable
INVARIANTS NodesCanJoin
PROPERTIES EventuallySettledOnceKnown NamespaceStaysIsolated
