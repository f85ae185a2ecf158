SPECIFICATION Spec
CONSTANTS
    Messages <- MCMessages
    Replies <- MCReplies
    Wirings <- MCWirings
    Tools = {"search", "calculator"}
    FinalActions = {"finish"}
    Responses <- MCResponses
    MaxSteps = 3
    ToolAttempts = 2
    MaxRetries = 3
    MaxRounds = 3
    MaxEvents = 2
    MaxTurns = 2
INVARIANTS
  AnswersEarned
  TracesComplete
  ThoughtsAccounted
PROPERTY
  TurnEnds
