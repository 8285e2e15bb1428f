CONSTANTS
  Sender = Sender
  Receiver = Receiver
  None = None
  UnreadMax = 3
  MaxSent = 5
SPECIFICATION Spec
INVARIANTS
  AcceptedIsUnread
  PulledInOrder
  SeenBeforeConfirmed
