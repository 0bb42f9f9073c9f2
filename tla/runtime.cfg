\* Two runs and a connect of one integration.
SPECIFICATION FairSpec
CONSTANTS
  Call = {c1, c2}
  Mutator = {m1}
  Integration <- OneIntegration
  shared = m1
  MaxCallErrors = 1
INVARIANTS TypeOK NoOrphanedCalls CleanCloseSettles
PROPERTIES AnswersAreFinal ImplementsLifecycle ShutdownCompletes RunsEnd ConnectGetsGate
