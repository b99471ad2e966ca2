CONSTANTS
  Publishers = {p1, p2}
  Clients = {w1}
  Topics = {cpu}
  Chans = {c1, c2}
  BufferSize = 2
  MaxEvents = 3
  None = None
SPECIFICATION FairSpec
INVARIANTS TypeOK NoUseAfterClose PublisherOrder
PROPERTIES PublishReturns CallsReturn ImplementsFanout
CHECK_DEADLOCK FALSE
