SPECIFICATION CollectorSpec
CONSTANTS
  Thread = {t1, t2}
  MaxWorkers = 2
  MaxEvents = 3
  Main = Main
  None = None
SYMMETRY Threads
INVARIANT TracedEventsAlive
