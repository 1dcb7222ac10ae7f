SPECIFICATION FairSpec
CONSTANTS
  Requests = {r1, r2}
  Agents = {query, exec}
  Direct = {query}
  Master = master
  QueueMax = 1
  MaxTasks = 1
  Nobody = Nobody
CHECK_DEADLOCK FALSE
INVARIANTS TypeOK NoFutureLeaks ReplyBeatsQueue QuietAfterClose
PROPERTIES KeepsPromise EveryRequestSettles
