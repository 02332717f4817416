CONSTANTS
  Scripts <- TwoHaves
  INIT_MESSAGES = 3
  Deadline <- SourceDeadlines
  READ_TIMEOUT = 6
  Prompt = FALSE
SPECIFICATION Spec
INVARIANT InStep
