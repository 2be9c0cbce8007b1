SPECIFICATION Spec
CONSTANTS
  Agents = {"llm", "custom", "remote"}
  Vendors = {"anthropic", "google", "openai"}
  Replies <- MCReplies
  Interceptions <- MCInterceptions
  Names = {"", "a", "b"}
  MaxLlmCalls = 2
  MaxTurns = 2
  MaxPieces = 3
  MaxIntercepted = 1
INVARIANTS PathsAgree ContentOnce ToolsPaired
PROPERTY AbortTakesNoMore
CHECK_DEADLOCK FALSE
