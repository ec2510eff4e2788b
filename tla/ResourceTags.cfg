SPECIFICATION FairSpec
CONSTANTS
  Caller = {c1, c2, c3}
  Kind = {k1}
  Tagged = {k1}
  Key <- MCKey
  ZoneTag = "zone"
  WorkspaceTag = "workspace"
  Fits <- MCFits
  Start <- MCStart
  None = None
  Untagged = Untagged
  Fatal = Fatal
INVARIANTS OneAnswer TagsByPriority
PROPERTIES EveryCallReturns KeepsThePromise
