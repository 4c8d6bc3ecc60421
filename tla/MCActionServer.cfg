SPECIFICATION FairSpec
CONSTANTS
  r1 = r1
  Run = {r1}
  None = None
INVARIANTS TypeOK OneRuntime FilesKept
PROPERTIES OutcomeStays ImplementsRemoteRun Settles
