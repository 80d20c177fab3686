SPECIFICATION FairSpec
CONSTANTS
  Thread = {t1, t2}
  MaxWorkers = 2
  MaxEvents = 3
  Main = Main
  None = None
INVARIANT TypeOK
INVARIANT RunsAlone
INVARIANT NoLostWakeup
INVARIANT OwnedOnce
INVARIANT RoutedToParent
INVARIANT TerminationSpreads
PROPERTY ImplementsMailboxes
PROPERTY FinishReturns
