\* Buffers of three bytes, heads of up to five, bodies of up to thirteen.
CONSTANTS
  Requests <- MCRequests
  NoRequest = NoRequest
  BufSize = 3
  MaxRequest = 5
  MaxBody = 13
  Length <- MCLength
  Byte <- MCByte
  Raw <- MCRaw
  Double <- MCDouble
  Format <- MCFormat
  CodePoint <- MCCodePoint
  Controls <- MCControls
  NameSymbols <- MCNameSymbols
  Digits <- MCDigits
  Messages <- MCMessages
  NoMessage = NoMessage
  JsonTopics <- MCJsonTopics
  NameOrder <- MCNameOrder
  Tokens <- MCTokens
  SimpleGet = TRUE
  StatePrefix <- MCStatePrefix
  TopicPrefix <- MCTopicPrefix
SPECIFICATION Spec
INVARIANTS
  TypeOK
  RoutedWhole
  RefusedForSize
  ExposedOnce
PROPERTIES
  ValuesAsSent
  SavedTextLoads
