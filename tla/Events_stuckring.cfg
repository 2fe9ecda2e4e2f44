SPECIFICATION Spec
CONSTANTS
  Fds = {f1}
  MaxClients = 1
  EventSlots = 2
  MaxSession = 1
  MaxEvent = 3
PROPERTY HeartbeatRetries
