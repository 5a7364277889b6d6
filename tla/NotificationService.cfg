\* A client with two packets, good or bad, a user with one notification, and every way to build.
SPECIFICATION FairSpec
CONSTANTS
  timeout = timeout
  client = client
  game = game
  good = good
  stray = stray
  garbled = garbled
  logger = logger
  adapter = adapter
  timer = timer
  None = None
  Kind <- Kinds
  Packet <- Packets
  KindOf <- KindsOf
  Routed <- Kinds
  IdOf <- IdsOf
  Convertible <- ConvertiblePackets
  Topic <- Topics
  Processor <- Processors
  Body <- Bodies
  Adapter = adapter
  Timer = timer
  TopicsOf <- LoggerTopics
  IngressTopic = client
  MaxPackets = 2
  MaxNotified = 1
INVARIANTS
  TypeOK
  InboundExact
  AnswersInOrder
  NothingDropped
  FanOutExact
  OvertakenByPriorityOnly
PROPERTIES
  EveryoneServed
  PacketsAnswered
  HangUpEndsInbound
CHECK_DEADLOCK FALSE
