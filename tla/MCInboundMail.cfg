SPECIFICATION FairSpec
CONSTANTS
  worker = worker
  webhook = webhook
  message = message
  None = None
  Mails = {1, 2}
  MessageOf <- SameMessage
  Handlers = {worker, webhook}
  Workers = {worker}
  MaxAttempts = 2
  BatchSize = 2
  MaxFaults = 1
  MaxRetries = 1
INVARIANTS
  ProcessedMailIsApplied
PROPERTIES
  AppliedMailIsNotTurnedAway
  MailIsSettled
