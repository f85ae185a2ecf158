SPECIFICATION ToolsSpec
CONSTANTS
  Batches <- MCBatches
  Stored <- MCStored
  TitleText <- MCTitleText
  Requests <- MCRequests
  Drafts <- MCDrafts
  Samples <- MCSamples
  Given <- MCGiven
  Targets = {"yuan", "wan", "yi"}
  Patterns <- MCPatterns
  Decimals <- MCDecimals
  Periods <- MCPeriods
  Defaults <- MCDefaults
  TopK = 2
  Budget = 1
INVARIANTS
  FiltersKept
  
  
  
  EvidenceKept
CHECK_DEADLOCK FALSE
