SPECIFICATION FairSpec
CONSTANTS
  None = None
  Typed = Typed
  Providers = {"anthropic", "openai_chatgpt", "ollama", "claude_code"}
  Configured = {}
  Values = {v1}
  Operations = {o1, o2}
  MaxFlow = 3
  MaxWizards = 2
INVARIANTS
  ReportIsTrue
PROPERTIES
  SavesOwnSetup
  NothingAbandoned
  WaitEnds
CHECK_DEADLOCK FALSE
