\* Four messages through queues of two and one: both queues fill, and a
\* message matches the store's filters, the webhook's, or both.
CONSTANTS
  MaxMessages = 4
  IncomingSize = 2
  WebhookSize = 1
  Topic <- MCTopic
  Numeric <- MCNumeric
  subscribe_topics <- MCSubscribe
  webhook_topics <- MCWebhook
  DollarLevels <- MCDollarLevels
SPECIFICATION FairSpec
INVARIANTS
  TypeOK
  NoMissedMessage
  NoSilentDrop
  CountersAddUp
PROPERTIES
  RoutedAsSubscribed
  PostedInOrder
  QueuedIsTaken
CHECK_DEADLOCK FALSE
