SPECIFICATION FairSpec
CONSTANTS
  free_queue = free_queue
  allocated_queue = allocated_queue
  send_queue = send_queue
  capture = capture
  sort = sort
  send = send
  MaxNodes = 4
  Queues <- ThreeQueues
  Free = free_queue
  Movers <- ThreeMovers
  From <- Takes
  To <- Adds
INVARIANTS
  TypeOK
  Linked
  OnePlace
  RemoveFindsFirst
  NothingLost
PROPERTY
  NodeMovesOn
