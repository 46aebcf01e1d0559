CONSTANTS
  MaxMessages = 1
  IncomingSize = 2
  WebhookSize = 1
  Topic <- MCTopic
  Numeric <- MCNumeric
  subscribe_topics <- MCSubscribe
  webhook_topics <- MCWebhook
  DollarLevels <- MCDollarLevels
SPECIFICATION FairSpec
PROPERTIES
  StopCompletes
CHECK_DEADLOCK FALSE
