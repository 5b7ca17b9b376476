SPECIFICATION FairSpec
CONSTANTS
  Names = {"x", "S"}
  Samples <- MCSamples
INVARIANTS CrashExplained Balanced
PROPERTY Ends
CHECK_DEADLOCK FALSE
