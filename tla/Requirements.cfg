SPECIFICATION FairSpec
CONSTANTS
  Vpc = {v1, v2}
  Kms = {k1}
  Zone = {z1, z2}
  None = None
  NotAsked = NotAsked
  Fatal = Fatal
  MaxCalls = 5
  MaxChanges = 3
INVARIANTS TypeOK BareIsNeverAccepted AnswerIsConsistent GivesUpOnlyAmidChanges
PROPERTIES EventuallyComposed
