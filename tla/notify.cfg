SPECIFICATION FairSpec
CONSTANTS
  Hosts = {a}
  Clients <- MCClients
  Alerts <- SomeAlerts
  Greetings <- Both
  Starter = Starter
  Main = Main
  Nobody = Nobody
  MaxNotifiers = 2
  a = a
  mail = mail
  chat = chat
  hook = hook
CHECK_DEADLOCK FALSE
INVARIANTS
  TypeOK
  OncePerProcess
PROPERTIES
  WithheldOnlyIfTold
  EveryChannelVisited
  NothingAfterOffline
  Exits
