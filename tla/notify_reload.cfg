SPECIFICATION Spec
CONSTANTS
  Hosts = {a}
  Clients <- MCClients
  Alerts <- AllAlerts
  Greetings <- Both
  Starter = Starter
  Main = Main
  Nobody = Nobody
  MaxNotifiers = 2
  a = a
  mail = mail
  chat = chat
  hook = hook
CHECK_DEADLOCK FALSE
PROPERTIES
  CooldownKept
