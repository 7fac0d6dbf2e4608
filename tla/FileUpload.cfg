SPECIFICATION Spec
CONSTANTS
  Queue <- MCBatches
  Size = 2
INVARIANTS OneLoopUndisturbed FailuresShown EndMeansAll
PROPERTY UploadsMoveOn
CHECK_DEADLOCK FALSE
