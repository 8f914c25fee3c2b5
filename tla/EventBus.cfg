SPECIFICATION Spec
CONSTANTS
  Emitters = {e1, e2}
  Worker = worker
  Stopper = stopper
  NumSinks = 2
  QueueSize = 2
  MaxEvents = 3
INVARIANTS TypeOK AtMostOnceInOrder
PROPERTIES EventsHandled
