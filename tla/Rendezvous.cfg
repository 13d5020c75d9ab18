CONSTANTS
  Framings = {"sized", "none", "until eof", "long"}
  NatTypes = {"restricted", "unrestricted"}
  Plans <- PlansDef
  MaxAttempts = 2
  Retries = 2
SPECIFICATION FairExchangeSpec
INVARIANTS AnswerMatches NatReported
PROPERTIES ResentUnanswered NegotiationEnds
CHECK_DEADLOCK FALSE
