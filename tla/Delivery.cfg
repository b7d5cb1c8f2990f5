SPECIFICATION Spec
CONSTANTS
  email = email
  sms = sms
  host = host
  Messages = {email, sms, host}
  Contacts <- MCContacts
  Optional = {sms}
  Requests = {r1, r2}
  Worker = worker
  MaxAttempts = 2
  NoMessage = NoMessage
  MaxFaults = 1
  MaxStalls = 1
  MaxOutages = 1
INVARIANT DeliveryInv
PROPERTIES Settles EveryChannelTried
CHECK_DEADLOCK FALSE
