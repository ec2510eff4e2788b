SPECIFICATION FairSpec
CONSTANTS
  None = None
  Password = {p1, p2, p3}
  Value <- MCValue
  Family = {"f1", "f2"}
  Subnet = {s1}
  Acl = {a1}
  EngineVersion = {"e1", "e2"}
  Data = {"d1", "d2"}
  Fatal = Fatal
  Losable <- MCLosable
  MaxDisruptions = 2
  Name <- MCName
  Composite <- MCComposite
  Start <- MCStart
  Manifest <- ServiceManifest
  Status <- ServiceStatus
  NewStatus <- ServiceNewStatus
  Generate <- MCGenerate
  Sequence <- MCSequence
  IsReady <- MCIsReady
  Edits <- MCEdits
  Reports <- MCReports
  Degrades <- MCDegrades
  Removable <- MCRemovable
INVARIANTS KafkaPasswordAgrees BrokerPasswordAgrees
PROPERTIES EventuallySettledOnceKnown ValkeyGroupInUseStays ConfigurationInUseStays ValkeyTokenArrives S3KeyArrives ConfigurationArrives
