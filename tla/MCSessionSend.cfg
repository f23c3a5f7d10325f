SPECIFICATION FairSpec
CONSTANTS
  Senders = {t1, t2}
  Completer = io
  MaxQueue = 3
  MaxGather = 2
  MaxSend = 3
  Size <- Sizes
CHECK_DEADLOCK FALSE
INVARIANTS OneSendAtATime NoLostSend QueueSound StreamIntact
PROPERTIES AcceptedIsSent
