\* One run, a connect of its integration and a connect of another one.
SPECIFICATION FairSpec
CONSTANTS
  Call = {c1}
  Mutator = {m1, m2}
  shared = m1
  Integration <- OwnIntegrations
  MaxCallErrors = 1
PROPERTIES ConnectsProceed
