CONSTANTS
  Scripts <- AnyScripts
  INIT_MESSAGES = 3
  Deadline <- SourceDeadlines
  READ_TIMEOUT = 6
  Prompt = TRUE
SPECIFICATION FairSpec
INVARIANTS WireTypeOK InStep UnchokeHeeded CallBounded
PROPERTIES DroppedUnlessUnchoked AllReturned
